---- MODULE Spec2Model ----
(***************************************************************************)
(* A model of the advisory back end (conversation workflow, advisor        *)
(* manager, the eight advisors), of the lead data service, the leads HTTP  *)
(* API, the lead scoring engine and the lead enrichment task of            *)
(* khansConstant/ai-base-project.                                          *)
(*                                                                         *)
(* Python values are tagged records, strings are sequences of symbols      *)
(* (free text is spelled character by character; an identifier that the    *)
(* code only compares for equality is one symbol), a dict is a function    *)
(* whose DOMAIN is its key set, a float with one decimal is an integer     *)
(* number of tenths.                                                       *)
(***************************************************************************)
EXTENDS Integers, Sequences, FiniteSets, TLC

VARIABLES
    phase,       \* "pending" before the operation under way ran, "done" after
    call,        \* the advisor-manager call: route_to_agent's arguments
    agentOut,    \* what the selected advisor's run_agent did
    routeOut,    \* what route_to_agent did
    modelLog,    \* the outcomes of the chat-completion calls the operation made
    req,         \* the body of the POST /workflow/execute under way
    wfOut,       \* the HTTP response to it
    classifyLog, \* the messages this turn sent to POST /chat_bot/classify-problem
    turn,        \* the number of the conversation's turn under way
    tables,      \* the lead database: its committed rows
    lastCreate,  \* the last create_lead call and what it did
    httpReq,     \* the request to the leads HTTP API under way
    httpResp,    \* the HTTP response to it
    queue,       \* the enrich_lead_task messages sent to the broker, in order
    contOut,     \* the response of POST /workflow/continue to the body req
    scoring,     \* the last AIScoringEngine.score_lead call and what it did
    pipe,        \* the enrichment graph run under way: its State and its calls
    workers,     \* the concurrent executions (tasks, calls): position, result
    sessions,    \* the database sessions get_db has handed out, and their state
    auth,        \* the last access-token operation and what it did
    trace,       \* the conversation graph run under way: node reached, nodes run
    poll         \* the scraping-provider polling call under way: attempts, result

advisorVars == <<call, agentOut, routeOut, modelLog>>

workflowVars == <<req, wfOut, classifyLog, turn>>

leadVars == <<tables, lastCreate>>

apiVars == <<httpReq, httpResp, queue, contOut>>

enrichVars == <<scoring, pipe, workers>>

utilVars == <<sessions, auth, trace, poll>>

vars == <<phase, advisorVars, workflowVars, leadVars, apiVars, enrichVars, utilVars>>

\* Nothing asked of the leads HTTP API or of POST /workflow/continue yet, and
\* no scoring call, graph run or task started.
IdleApi ==
    /\ httpReq = [endpoint |-> "none"]
    /\ httpResp = [status |-> 0]
    /\ queue = <<>>
    /\ contOut = [status |-> 0]

IdleEnrich ==
    /\ scoring = [asked |-> FALSE]
    /\ pipe = [stage |-> 0]
    /\ workers = <<>>

\* No session handed out, no token operation, no conversation graph run and
\* no polling call yet.
IdleUtil ==
    /\ sessions = {}
    /\ auth = [op |-> "none"]
    /\ trace = [node |-> "none"]
    /\ poll = [fn |-> "none"]

\* ------------------------------------------------------------ Python values

PyNone == [tag |-> "None", s |-> <<>>, n |-> 0]
PyStr(x) == [tag |-> "str", s |-> x, n |-> 0]
PyNum(k) == [tag |-> "num", s |-> <<>>, n |-> k]
Ident(x) == PyStr(<<x>>)

\* bool(v): None, "" and 0 are falsy.
Truthy(v) ==
    CASE v.tag = "None" -> FALSE
      [] v.tag = "str" -> Len(v.s) > 0
      [] OTHER -> v.n # 0

\* ------------------------------------------------------------ strings

IsSpace(c) == c \in {" ", "\t", "\n"}

RECURSIVE LStrip(_)
LStrip(s) == IF s # <<>> /\ IsSpace(Head(s)) THEN LStrip(Tail(s)) ELSE s

RECURSIVE RStrip(_)
RStrip(s) ==
    IF s # <<>> /\ IsSpace(s[Len(s)]) THEN RStrip(SubSeq(s, 1, Len(s) - 1)) ELSE s

\* str.strip()
Strip(s) == RStrip(LStrip(s))

UpperLetters ==
    <<"A", "B", "C", "D", "E", "F", "G", "H", "I", "J", "K", "L", "M",
      "N", "O", "P", "Q", "R", "S", "T", "U", "V", "W", "X", "Y", "Z">>

LowerLetters ==
    <<"a", "b", "c", "d", "e", "f", "g", "h", "i", "j", "k", "l", "m",
      "n", "o", "p", "q", "r", "s", "t", "u", "v", "w", "x", "y", "z">>

LowerChar(c) ==
    IF \E i \in 1..Len(UpperLetters) : UpperLetters[i] = c
    THEN LowerLetters[CHOOSE i \in 1..Len(UpperLetters) : UpperLetters[i] = c]
    ELSE c

\* str.lower()
Lower(s) == [i \in 1..Len(s) |-> LowerChar(s[i])]

\* `sub in s` for two strings
Contains(s, sub) ==
    \E i \in 0..(Len(s) - Len(sub)) : SubSeq(s, i + 1, i + Len(sub)) = sub

\* ------------------------------------------------------------ dicts

EmptyCtx == [k \in {} |-> PyNone]

\* dict.get(k, d)
Get(ctx, k, d) == IF k \in DOMAIN ctx THEN ctx[k] ELSE d

\* table.get(v, d) for a table keyed by identifiers and a Python value v
Lookup(table, v, d) ==
    IF v.tag = "str" /\ \E k \in DOMAIN table : v.s = <<k>>
    THEN table[CHOOSE k \in DOMAIN table : v.s = <<k>>]
    ELSE d

\* ------------------------------------------------------------ texts
\* A reply text is known by the facts the code reads from it: its length, its
\* length once stripped, and whether its lower-cased form holds a plan marker
\* ("##", "**plan", ...), the word "thank", or a follow-up word ("understand",
\* "question", "elaborate", "timing").

Text(id, raw, len, marker, thank, general) ==
    [id |-> id, raw |-> raw, len |-> len, marker |-> marker, thank |-> thank,
     general |-> general, wrapped |-> FALSE]

\* f"\n{text}\n": the text between two line breaks.
Wrap(t) == [t EXCEPT !.raw = @ + 2, !.wrapped = TRUE]

EmptyText == Text("", 0, 0, FALSE, FALSE, FALSE)


\* The literal reply texts of the source.
ClarifyText(agent) ==
    CASE agent = "AttritionAgent" -> Text("attrition_need_info", 70, 70, FALSE, FALSE, FALSE)
      [] agent = "EngagementAgent" -> Text("engagement_need_info", 48, 48, FALSE, FALSE, FALSE)
      [] agent = "PerformanceAgent" -> Text("performance_need_info", 75, 75, FALSE, FALSE, FALSE)
      [] agent = "LeadershipAgent" -> Text("leadership_need_context", 24, 24, FALSE, FALSE, FALSE)
      [] agent = "ExecutionAgent" -> Text("execution_need_context", 23, 23, FALSE, FALSE, FALSE)
      [] agent = "DEIAgent" -> Text("dei_need_context", 17, 17, FALSE, FALSE, FALSE)
      [] agent = "CultureAgent" -> Text("culture_gathering", 165, 165, FALSE, TRUE, TRUE)
      [] OTHER -> Text("default_tell_me_more", 138, 138, FALSE, FALSE, TRUE)

FallbackText(agent) ==
    CASE agent = "AttritionAgent" -> Text("attrition_error", 68, 68, FALSE, FALSE, FALSE)
      [] agent = "EngagementAgent" -> Text("engagement_error", 35, 35, FALSE, FALSE, FALSE)
      [] agent = "PerformanceAgent" -> Text("performance_error", 51, 51, FALSE, FALSE, FALSE)
      [] agent = "CultureAgent" -> Text("culture_excited", 156, 156, FALSE, FALSE, FALSE)
      [] agent = "DefaultAgent" -> Text("default_tell_me_more", 138, 138, FALSE, FALSE, TRUE)
      [] OTHER -> Text("error_provide_details", 23, 23, FALSE, FALSE, FALSE)

CultureWelcomeText == Text("culture_welcome", 147, 147, FALSE, FALSE, TRUE)
DefaultWelcomeText == Text("default_welcome", 122, 122, FALSE, FALSE, TRUE)
RouteErrorText == Text("route_error", 66, 66, FALSE, FALSE, FALSE)

\* ------------------------------------------------------------ AgentResponse

\* A clarifying question: a plain string (kind "str") or a {"question", "key"}
\* dict (kind "dict"); key is the context field it asks for, text names its wording.
Question(kind, key, text) == [kind |-> kind, key |-> key, text |-> text]

\* The constructor of the pydantic model: next_questions is declared
\* List[Dict[str, str]], so a list holding a plain string fails validation and the
\* constructor raises (raised = TRUE).
AgentResponse(action_plan, next_questions, updated_context, confidence, requires_clarification) ==
    [raised |-> \E i \in 1..Len(next_questions) : next_questions[i].kind # "dict",
     action_plan |-> action_plan,
     next_questions |-> next_questions,
     updated_context |-> updated_context,
     confidence |-> confidence,
     requires_clarification |-> requires_clarification]

\* AgentResponse's declared defaults, in tenths.
DefaultConfidence == 8

NoResponse == AgentResponse(EmptyText, <<>>, EmptyCtx, 0, FALSE)

\* What a call of run_agent did: raised, or returned resp; modelCalls counts the
\* chat-completion calls it made.
Out(r, calls) ==
    [raised |-> r.raised,
     resp |-> IF r.raised THEN NoResponse ELSE r,
     modelCalls |-> calls]

\* ------------------------------------------------------------ the model's reply
\* The chat-completion call either fails (ok = FALSE: the call or the parsing of
\* its output into an AgentResponse raised) or yields a valid AgentResponse.

LLMContext(mode, context) ==
    CASE mode = "empty" -> EmptyCtx
      [] mode = "extend" -> ("analysis" :> Ident("insight")) @@ context
      [] OTHER -> ("summary" :> Ident("insight"))

LLMResult(llm, context) ==
    LET uc == LLMContext(llm.ctxmode, context)
    IN AgentResponse(llm.action_plan, llm.next_questions,
                     IF uc = EmptyCtx THEN context ELSE uc,
                     llm.confidence, llm.requires_clarification)

\* ------------------------------------------------------------ the advisors

AgentClasses ==
    {"AttritionAgent", "EngagementAgent", "PerformanceAgent", "CultureAgent",
     "LeadershipAgent", "ExecutionAgent", "DEIAgent", "DefaultAgent"}

StandardAgents ==
    {"AttritionAgent", "EngagementAgent", "PerformanceAgent", "LeadershipAgent",
     "ExecutionAgent", "DEIAgent"}

get_required_context_fields(agent) ==
    CASE agent = "AttritionAgent" -> <<"team_size", "turnover_rate", "department", "time_period">>
      [] agent = "EngagementAgent" -> <<"engagement_score", "team_size", "recent_surveys", "main_concerns">>
      [] agent = "PerformanceAgent" -> <<"performance_metrics", "team_role", "performance_period", "specific_issues">>
      [] agent = "CultureAgent" -> <<"company_size", "culture_issues", "values", "desired_culture">>
      [] agent = "LeadershipAgent" -> <<"leadership_level", "development_areas", "succession_planning", "timeline">>
      [] agent = "ExecutionAgent" -> <<"business_goals", "current_performance", "obstacles", "resources">>
      [] agent = "DEIAgent" -> <<"diversity_metrics", "dei_initiatives", "specific_concerns", "organizational_commitment">>
      [] OTHER -> <<>>

SetMin(S) == CHOOSE x \in S : \A y \in S : x <= y

\* BaseAgent.check_clarification_needed: the 0-based index of the first required
\* field that is absent or falsy, or -1.
check_clarification_needed(agent, context) ==
    LET F == get_required_context_fields(agent)
        missing == {i \in 1..Len(F) : F[i] \notin DOMAIN context \/ ~Truthy(context[F[i]])}
    IN IF missing = {} THEN -1 ELSE SetMin(missing) - 1

\* `if n:` for an int
IntTruthy(n) == n # 0

RECURSIVE QuestionsFor(_, _)
QuestionsFor(F, context) ==
    IF F = <<>> THEN <<>>
    ELSE (IF Head(F) \notin DOMAIN context
          THEN <<Question("str", Head(F), "fixed")>> ELSE <<>>)
         \o QuestionsFor(Tail(F), context)

RECURSIVE QuestionsForFalsy(_, _)
QuestionsForFalsy(F, context) ==
    IF F = <<>> THEN <<>>
    ELSE (IF ~Truthy(Get(context, Head(F), PyNone))
          THEN <<Question("str", Head(F), "fixed")>> ELSE <<>>)
         \o QuestionsForFalsy(Tail(F), context)

\* generate_clarifying_questions of the six standard advisors (one fixed
\* question per required field whose key is not in the context) and of the
\* Default advisor (one per falsy field of problem_type, specific_details, urgency).
generate_clarifying_questions(agent, context) ==
    IF agent = "DefaultAgent"
    THEN QuestionsForFalsy(<<"problem_type", "specific_details", "urgency">>, context)
    ELSE QuestionsFor(get_required_context_fields(agent), context)

\* _generate_action_plan, and the try/except around the model call that the
\* other standard advisors inline: the except branch builds the fallback
\* AgentResponse with a plain-string question.
generate_action_plan(agent, context, llm) ==
    IF llm.ok
    THEN LLMResult(llm, context)
    ELSE AgentResponse(FallbackText(agent), <<Question("str", "", "fallback")>>,
                       context, 3, FALSE)

\* run_agent of AttritionAgent, EngagementAgent, PerformanceAgent,
\* LeadershipAgent, ExecutionAgent and DEIAgent.
StandardRunAgent(agent, user_query, context, llm) ==
    IF IntTruthy(check_clarification_needed(agent, context))
    THEN Out(AgentResponse(ClarifyText(agent),
                           generate_clarifying_questions(agent, context),
                           context, 5, TRUE), 0)
    ELSE Out(generate_action_plan(agent, context, llm), 1)


\* ------------------------------------------------------------ Culture advisor

\* CultureAgent._question_bank, in required-field order.
question_bank ==
    <<Question("dict", "company_size", "bank"),
      Question("dict", "culture_issues", "bank"),
      Question("dict", "values", "bank"),
      Question("dict", "desired_culture", "bank")>>

\* IsBlank with the plain test of the other advisors: only None (an absent key)
\* counts, an empty string does not.
IsBlankAbsentOnly(v) == v.tag = "None"

\* The blank test of CultureAgent.check_missing_context on context.get(field).
IsBlank(v) == v.tag = "None" \/ (v.tag = "str" /\ Strip(v.s) = <<>>)

RECURSIVE MissingOf(_, _)
MissingOf(F, context) ==
    IF F = <<>> THEN <<>>
    ELSE (IF IsBlank(Get(context, Head(F), PyNone)) THEN <<Head(F)>> ELSE <<>>)
         \o MissingOf(Tail(F), context)

\* CultureAgent.check_missing_context: the required fields that are absent, None
\* or a blank string, in required-field order.
check_missing_context(context) ==
    MissingOf(get_required_context_fields("CultureAgent"), context)

SeqRange(q) == {q[i] : i \in 1..Len(q)}

\* CultureAgent.generate_clarifying_questions(context, question_index)
culture_clarifying_questions(context, question_index) ==
    LET missing == SeqRange(check_missing_context(context))
        inOrder == {i \in 1..Len(question_bank) : question_bank[i].key \in missing}
    IN IF /\ 0 <= question_index
          /\ question_index < Len(question_bank)
          /\ question_bank[question_index + 1].key \in missing
       THEN <<question_bank[question_index + 1]>>
       ELSE IF inOrder # {} THEN <<question_bank[SetMin(inOrder)]>> ELSE <<>>

culture_thanks_phrases ==
    {<<"t", "h", "a", "n", "k", " ", "y", "o", "u">>,
     <<"t", "h", "a", "n", "k", "s">>,
     <<"g", "r", "e", "a", "t">>,
     <<"a", "p", "p", "r", "e", "c", "i", "a", "t", "e">>,
     <<"a", "w", "e", "s", "o", "m", "e">>}

\* CultureAgent.run_agent
CultureRunAgent(user_query, context, question_index, llm) ==
    IF check_missing_context(context) # <<>>
    THEN Out(AgentResponse(ClarifyText("CultureAgent"),
                           culture_clarifying_questions(context, question_index),
                           context, 5, TRUE), 0)
    ELSE IF \E phrase \in culture_thanks_phrases : Contains(Lower(user_query), phrase)
    THEN Out(AgentResponse(CultureWelcomeText, <<>>, context, 9, FALSE), 0)
    ELSE IF llm.ok
    THEN Out(LLMResult(llm, context), 1)
    ELSE Out(AgentResponse(FallbackText("CultureAgent"),
                           <<Question("dict", "culture_issues", "fallback")>>,
                           context, 3, FALSE), 1)

\* ------------------------------------------------------------ Default advisor

thank_you_keywords ==
    {<<"t", "h", "a", "n", "k">>,
     <<"t", "h", "a", "n", "k", "s">>,
     <<"a", "p", "p", "r", "e", "c", "i", "a", "t", "e">>,
     <<"g", "r", "a", "t", "e", "f", "u", "l">>,
     <<"t", "y">>}

\* is_thank_you without the lower-casing of the utterance.
is_thank_you_case_sensitive(user_query) ==
    \E keyword \in thank_you_keywords : Contains(user_query, keyword)

is_thank_you(user_query) ==
    \E keyword \in thank_you_keywords : Contains(Lower(user_query), keyword)

\* DefaultAgent.run_agent
DefaultRunAgent(user_query, context, llm) ==
    IF is_thank_you(user_query)
    THEN Out(AgentResponse(DefaultWelcomeText, <<>>, context, 9, FALSE), 0)
    ELSE IF llm.ok
    THEN Out(LLMResult(llm, context), 1)
    ELSE Out(AgentResponse(FallbackText("DefaultAgent"),
                           generate_clarifying_questions("DefaultAgent", context),
                           context, 6, TRUE), 1)

\* agent.run_agent(user_query, context, original_user_query=...): the Culture
\* advisor's question_index keeps its default, 0.
RunAgent(agent, user_query, context, llm) ==
    CASE agent = "CultureAgent" -> CultureRunAgent(user_query, context, 0, llm)
      [] agent = "DefaultAgent" -> DefaultRunAgent(user_query, context, llm)
      [] OTHER -> StandardRunAgent(agent, user_query, context, llm)

\* ------------------------------------------------------------ Advisor Manager

\* AgentManager.agents: problem type -> advisor
agents ==
    ("Attrition" :> "AttritionAgent") @@ ("Engagement" :> "EngagementAgent")
    @@ ("Performance" :> "PerformanceAgent") @@ ("Culture" :> "CultureAgent")
    @@ ("Leadership Readiness" :> "LeadershipAgent")
    @@ ("Profitability/Execution" :> "ExecutionAgent")
    @@ ("DEI/Fairness" :> "DEIAgent") @@ ("Default" :> "DefaultAgent")

\* AgentManager.agent_class_to_problem_type
agent_class_to_problem_type ==
    ("AttritionAgent" :> Ident("Attrition")) @@ ("EngagementAgent" :> Ident("Engagement"))
    @@ ("PerformanceAgent" :> Ident("Performance")) @@ ("CultureAgent" :> Ident("Culture"))
    @@ ("LeadershipAgent" :> Ident("Leadership Readiness"))
    @@ ("ExecutionAgent" :> Ident("Profitability/Execution"))
    @@ ("DEIAgent" :> Ident("DEI/Fairness")) @@ ("DefaultAgent" :> Ident("Default"))

\* route_to_agent's selection with the suggested advisor ignored.
SelectAgentByProblemType(problem_type, suggested_agent) ==
    LET agent == Lookup(agents, problem_type, "")
    IN IF agent = "" THEN agents["Default"] ELSE agent

\* The advisor route_to_agent selects.
SelectAgent(problem_type, suggested_agent) ==
    LET agent_problem_type ==
            IF Truthy(suggested_agent)
            THEN Lookup(agent_class_to_problem_type, suggested_agent, problem_type)
            ELSE problem_type
        agent == Lookup(agents, agent_problem_type, "")
    IN IF agent = "" THEN agents["Default"] ELSE agent

\* AgentManager.route_to_agent: runs the selected advisor; the except branch builds
\* the apology AgentResponse, whose constructor may itself raise.
route_to_agent(problem_type, user_query, context, suggested_agent, llm) ==
    LET agent == SelectAgent(problem_type, suggested_agent)
        run == RunAgent(agent, user_query, context, llm)
        apology == AgentResponse(RouteErrorText, <<Question("str", "", "route_error")>>,
                                 context, 3, FALSE)
    IN IF ~run.raised
       THEN [raised |-> FALSE, resp |-> run.resp, agent |-> agent,
             modelCalls |-> run.modelCalls]
       ELSE [raised |-> apology.raised,
             resp |-> IF apology.raised THEN NoResponse ELSE apology,
             agent |-> agent, modelCalls |-> run.modelCalls]


\* ------------------------------------------------------------ inputs

\* The largest number of fragments an utterance is put together from.
MaxWords == 2

\* The values a context field is given: absent, None, "", a blank string, and a
\* non-blank string with leading white space.
Kinds == {"absent", "none", "empty", "blank", "val"}

KindVal(k) ==
    CASE k = "none" -> PyNone
      [] k = "empty" -> PyStr(<<>>)
      [] k = "blank" -> PyStr(<<" ", "\t">>)
      [] OTHER -> PyStr(<<" ", "4", "0">>)

MkCtx(F, g) ==
    [k \in {F[i] : i \in {j \in 1..Len(F) : g[j] # "absent"}} |->
        KindVal(g[CHOOSE i \in 1..Len(F) : F[i] = k])]

FieldContexts(F) == {MkCtx(F, g) : g \in [1..Len(F) -> Kinds]}

\* The fields an advisor reads from the context.
ContextFields(agent) ==
    IF agent = "DefaultAgent"
    THEN <<"problem_type", "specific_details", "urgency">>
    ELSE get_required_context_fields(agent)

Fragments ==
    {<<"t", "y">>, <<"T", "Y">>, <<"T", "h", "a", "n", "k">>,
     <<"g", "r", "a", "t", "e", "f", "u", "l">>,
     <<"A", "p", "p", "r", "e", "c", "i", "a", "t", "e">>,
     <<"g", "r", "e", "a", "t">>, <<"h", "i">>, <<"t">>, <<"y">>, <<"s">>, <<" ">>}

RECURSIVE Concats(_)
Concats(n) ==
    IF n = 0 THEN {<<>>}
    ELSE Concats(n - 1) \cup {f \o u : f \in Fragments, u \in Concats(n - 1)}

Utterances == Concats(MaxWords)

PlainQueries == {<<"h", "i">>}

\* What the chat-completion call may yield.
LLMTexts ==
    {Text("llm_structured_plan", 400, 400, TRUE, FALSE, FALSE),
     Text("llm_general_reply", 120, 120, FALSE, FALSE, TRUE),
     Text("llm_short_reply", 30, 30, FALSE, FALSE, FALSE),
     EmptyText}

LLMFailure ==
    [ok |-> FALSE, action_plan |-> EmptyText, next_questions |-> <<>>,
     ctxmode |-> "empty", confidence |-> 0, requires_clarification |-> FALSE]

LLMOutcomes ==
    {LLMFailure} \cup
    [ok : {TRUE}, action_plan : LLMTexts,
     next_questions : {<<>>, <<Question("dict", "more", "llm")>>},
     ctxmode : {"empty", "extend", "other"},
     confidence : {DefaultConfidence},
     requires_clarification : BOOLEAN]

\* The (problem_type, suggested_agent) pairs route_to_agent is called with.
Routes ==
    {[pt |-> Ident(d), sa |-> PyStr(<<>>)] : d \in {"Attrition", "Default", "Other"}}
    \cup {[pt |-> Ident("Culture"), sa |-> Ident(a)] : a \in AgentClasses \cup {"UnknownAgent"}}

AdvisorCalls ==
    UNION {{[problem_type |-> r.pt, suggested_agent |-> r.sa, user_query |-> q,
             context |-> c] :
                q \in PlainQueries,
                c \in FieldContexts(ContextFields(SelectAgent(r.pt, r.sa)))} :
           r \in Routes}
    \cup {[problem_type |-> Ident(d), suggested_agent |-> PyStr(<<>>),
           user_query |-> q, context |-> c] :
                d \in {"Default", "Culture"}, q \in Utterances,
                c \in {EmptyCtx,
                       MkCtx(ContextFields("CultureAgent"), [i \in 1..4 |-> "val"])}}

\* ------------------------------------------------------------ lead data service
\* The database: the committed rows of companies, leads and enrichment_jobs.
\* next_id stands for the fresh identifiers (uuid4, serial) rows are given. A
\* fault names the statement of the call that the database rejects, if any.

EmptyDb == [companies |-> {}, leads |-> {}, enrichment_jobs |-> {}, next_id |-> 1]

NoCompany == [id |-> 0, name |-> <<>>]

NoLead ==
    [id |-> 0, name |-> PyNone, email |-> PyNone, designation |-> PyNone,
     company_id |-> 0, lead_stage |-> ""]

\* SELECT * FROM companies WHERE name = :name
CompaniesNamed(db, company_name) == {c \in db.companies : c.name = company_name.s}

\* get_or_create_company with the SELECT left out: a row is inserted every time.
get_or_create_company_always_inserts(db, company_name, fault) ==
    IF ~Truthy(company_name) THEN [db |-> db, raised |-> FALSE, company |-> NoCompany]
    ELSE IF fault = "company_insert"
    THEN [db |-> db, raised |-> TRUE, company |-> NoCompany]
    ELSE [db |-> [db EXCEPT !.companies = @ \cup {[id |-> db.next_id, name |-> company_name.s]},
                            !.next_id = @ + 1],
          raised |-> FALSE,
          company |-> [id |-> db.next_id, name |-> company_name.s]]

\* get_or_create_company: the row of that name, or a new row, committed at once.
get_or_create_company(db, company_name, fault) ==
    IF ~Truthy(company_name) THEN [db |-> db, raised |-> FALSE, company |-> NoCompany]
    ELSE IF CompaniesNamed(db, company_name) # {}
    THEN [db |-> db, raised |-> FALSE,
          company |-> CHOOSE c \in CompaniesNamed(db, company_name) : TRUE]
    ELSE IF fault = "company_insert"
    THEN [db |-> db, raised |-> TRUE, company |-> NoCompany]
    ELSE [db |-> [db EXCEPT !.companies = @ \cup {[id |-> db.next_id, name |-> company_name.s]},
                            !.next_id = @ + 1],
          raised |-> FALSE,
          company |-> [id |-> db.next_id, name |-> company_name.s]]

\* The leads table takes one row per email address.
DuplicateEmail(db, email) ==
    email.tag = "str" /\ \E l \in db.leads : l.email = email

\* create_lead after the company step: the INSERT into leads, the INSERT into
\* enrichment_jobs and the commit; a rejected statement rolls the two back and
\* the exception is raised again. What get_or_create_company committed stays.
InsertLead(got, lead_data, fault) ==
    LET lead == [id |-> got.db.next_id,
                 name |-> Get(lead_data, "name", PyNone),
                 email |-> Get(lead_data, "email", PyNone),
                 designation |-> Get(lead_data, "designation", PyNone),
                 company_id |-> got.company.id,
                 lead_stage |-> "new"]
        job == [id |-> got.db.next_id + 1, lead_id |-> lead.id, status |-> "pending"]
    IN IF \/ got.raised
          \/ fault \in {"lead_insert", "enrichment_insert"}
          \/ DuplicateEmail(got.db, lead.email)
       THEN [db |-> got.db, raised |-> TRUE, result |-> NoLead]
       ELSE [db |-> [got.db EXCEPT !.leads = @ \cup {lead},
                                   !.enrichment_jobs = @ \cup {job},
                                   !.next_id = @ + 2],
             raised |-> FALSE, result |-> lead]

\* lead_service.create_lead
create_lead(db, lead_data, fault) ==
    InsertLead(IF "company" \in DOMAIN lead_data /\ Truthy(lead_data["company"])
               THEN get_or_create_company(db, lead_data["company"], fault)
               ELSE [db |-> db, raised |-> FALSE, company |-> NoCompany],
               lead_data, fault)

\* What the last create_lead call was given and did; before is the database it
\* started from.
CreateRecord(lead_data, fault, before, done) ==
    [calls |-> 0, lead_data |-> lead_data, fault |-> fault, before |-> before,
     raised |-> done.raised, result |-> done.result]

IdleCreate ==
    CreateRecord(EmptyCtx, "none", EmptyDb,
                 [db |-> EmptyDb, raised |-> FALSE, result |-> NoLead])

\* ------------------------------------------------------------ classification
\* POST /chat_bot/classify-problem. cls is what the environment does to one
\* classification request: the HTTP call fails (transport = "error"), or the
\* classification model fails (ok = FALSE) or yields (problem_type, confidence).

agent_map ==
    ("Attrition" :> "AttritionAgent") @@ ("Engagement" :> "EngagementAgent")
    @@ ("Performance" :> "PerformanceAgent") @@ ("Culture" :> "CultureAgent")
    @@ ("Leadership Readiness" :> "LeadershipAgent")
    @@ ("Profitability/Execution" :> "ExecutionAgent")
    @@ ("DEI/Fairness" :> "DEIAgent") @@ ("Other" :> "DefaultAgent")

ClassifyError(code) ==
    [status |-> code, problem_type |-> PyNone, confidence |-> PyNone,
     suggested_agent |-> PyNone]

classify_problem_endpoint(message, cls) ==
    IF message = <<>> THEN ClassifyError(400)
    ELSE IF Strip(message) = <<>> THEN ClassifyError(400)
    ELSE IF ~cls.ok THEN ClassifyError(500)
    ELSE LET unclassified == cls.problem_type \in {"Unknown", "Other"}
             problem_type == IF unclassified THEN "Other" ELSE cls.problem_type
         IN [status |-> 200,
             problem_type |-> Ident(problem_type),
             confidence |-> PyNum(IF unclassified THEN 3 ELSE cls.confidence),
             suggested_agent |->
                 Ident(IF problem_type \in DOMAIN agent_map
                       THEN agent_map[problem_type] ELSE "DefaultAgent")]

\* ------------------------------------------------------------ workflow graph

\* The WorkflowState execute starts the graph with.
InitialState(user_query, context, original_query) ==
    LET initial_state ==
            [user_query |-> user_query,
             original_user_query |->
                 IF original_query # <<>> THEN original_query ELSE user_query,
             problem_type |-> PyStr(<<>>),
             suggested_agent |-> PyStr(<<>>),
             confidence |-> PyNum(0),
             context |-> context,
             action_plan |-> EmptyText,
             response_text |-> EmptyText,
             next_questions |-> <<>>,
             requires_clarification |-> FALSE,
             knowledge_insights |-> FALSE,
             user_feedback |-> FALSE,
             iteration_count |-> 0]
    IN IF /\ context # EmptyCtx
          /\ "suggested_agent" \in DOMAIN context
          /\ "problem_type" \in DOMAIN context
       THEN [initial_state EXCEPT
                !.suggested_agent = context["suggested_agent"],
                !.problem_type = context["problem_type"],
                !.confidence = Get(context, "confidence", PyNum(5))]
       ELSE initial_state

\* input_node: every key it would initialise is already set by execute.
input_node(state) == state

\* Classified without the defaults of a failed classification.
Classified_keeps_state_on_failure(state, response) ==
    [raised |-> FALSE,
     state |-> IF response.status = 200
               THEN [state EXCEPT !.problem_type = response.problem_type,
                                  !.suggested_agent = response.suggested_agent,
                                  !.confidence = response.confidence]
               ELSE state,
     requests |-> <<state.original_user_query>>]

\* problem_classifier_node, the classification itself: one request to the
\* classification service with the original utterance; anything but a 200 answer
\* classifies as Other / DefaultAgent / 0.3.
Classified(state, response) ==
    [raised |-> FALSE,
     state |-> IF response.status = 200
               THEN [state EXCEPT !.problem_type = response.problem_type,
                                  !.suggested_agent = response.suggested_agent,
                                  !.confidence = response.confidence]
               ELSE [state EXCEPT !.problem_type = Ident("Other"),
                                  !.suggested_agent = Ident("DefaultAgent"),
                                  !.confidence = PyNum(3)],
     requests |-> <<state.original_user_query>>]

Classify(state, cls) ==
    Classified(state,
               IF cls.transport = "ok"
               THEN classify_problem_endpoint(state.original_user_query, cls)
               ELSE ClassifyError(0))

\* problem_classifier_node with its two cache checks left out.
problem_classifier_node_uncached(state, cls) == Classify(state, cls)

\* problem_classifier_node. raised: the comparison `existing_confidence > 0`
\* raised a TypeError (the value is not a number); requests: the messages sent to
\* the classification service.
problem_classifier_node(state, cls) ==
    LET context == state.context
        existing_problem_type == Get(context, "problem_type", PyStr(<<>>))
        existing_suggested_agent == Get(context, "suggested_agent", PyStr(<<>>))
        existing_confidence == Get(context, "confidence", PyNum(0))
        compared == Truthy(existing_problem_type) /\ Truthy(existing_suggested_agent)
    IN IF compared /\ existing_confidence.tag # "num"
       THEN [raised |-> TRUE, state |-> state, requests |-> <<>>]
       ELSE IF compared /\ existing_confidence.n > 0
       THEN [raised |-> FALSE,
             state |-> [state EXCEPT !.problem_type = existing_problem_type,
                                     !.suggested_agent = existing_suggested_agent,
                                     !.confidence = existing_confidence],
             requests |-> <<>>]
       ELSE IF Truthy(state.suggested_agent) /\ Truthy(state.problem_type)
       THEN [raised |-> FALSE, state |-> state, requests |-> <<>>]
       ELSE Classify(state, cls)

\* The reply texts a context can hold under final_action_plan.
PlanTexts ==
    LLMTexts \cup {ClarifyText(a) : a \in AgentClasses}
    \cup {FallbackText(a) : a \in AgentClasses}
    \cup {CultureWelcomeText, DefaultWelcomeText, RouteErrorText}

\* A reply text as a context value, and back.
ValueOfText(t) == IF t.raw = 0 THEN PyStr(<<>>) ELSE Ident(t.id)

TextOfValue(v) ==
    IF v.tag = "str" /\ \E t \in PlanTexts : t.raw > 0 /\ v.s = <<t.id>>
    THEN CHOOSE t \in PlanTexts : t.raw > 0 /\ v.s = <<t.id>>
    ELSE EmptyText

UnderstandText == Text("workflow_understand", 62, 62, FALSE, FALSE, TRUE)
WorkflowErrorText == Text("workflow_error", 36, 36, FALSE, FALSE, FALSE)

\* The advisors agent_manager_node accepts a final plan from.
SpecializedAgents == AgentClasses \ {"DefaultAgent"}

IsSpecialized(v) == v.tag = "str" /\ \E a \in SpecializedAgents : v.s = <<a>>

\* agent_manager_node, first step: the (suggested_agent, problem_type) pair of
\* the context, when both are truthy, replaces the state's.
OriginalAgentState(state) ==
    LET context == state.context
        original_agent == Get(context, "suggested_agent", PyStr(<<>>))
        original_problem_type == Get(context, "problem_type", PyStr(<<>>))
    IN IF Truthy(original_agent) /\ Truthy(original_problem_type)
       THEN [state EXCEPT !.suggested_agent = original_agent,
                          !.problem_type = original_problem_type]
       ELSE state

\* agent_manager_node, after route_to_agent returned agent_response.
AgentResponseState(state, agent_response) ==
    LET plan == agent_response.action_plan
        existing_action_plan ==
            TextOfValue(Get(state.context, "final_action_plan", PyStr(<<>>)))
        substantial ==
            /\ plan.raw > 0 /\ plan.len > 0 /\ plan.len > 50
            /\ IsSpecialized(state.suggested_agent)
        filled ==
            IF agent_response.requires_clarification
            THEN [state EXCEPT !.response_text = plan, !.action_plan = EmptyText]
            ELSE IF substantial /\ plan.marker /\ ~plan.thank /\ ~plan.general
            THEN [state EXCEPT !.action_plan = plan, !.response_text = EmptyText]
            ELSE IF substantial /\ Cardinality(DOMAIN state.context) >= 3
            THEN [state EXCEPT !.action_plan = plan, !.response_text = EmptyText,
                               !.context = ("final_action_plan" :> ValueOfText(plan)) @@ @]
            ELSE [state EXCEPT
                     !.response_text = IF plan.raw > 0 THEN plan ELSE UnderstandText,
                     !.action_plan = existing_action_plan]
    IN [filled EXCEPT !.next_questions = agent_response.next_questions,
                      !.requires_clarification = agent_response.requires_clarification,
                      !.context = agent_response.updated_context]

\* agent_manager_node, the except branch.
AgentErrorState(state) ==
    [state EXCEPT !.action_plan = WorkflowErrorText,
                  !.next_questions = <<>>,
                  !.requires_clarification = FALSE]

\* agent_manager_node once route_to_agent has run: state is the node's result,
\* route what route_to_agent did and call the arguments it was given.
Routed(state, route) ==
    [state |-> IF route.raised THEN AgentErrorState(state)
               ELSE AgentResponseState(state, route.resp),
     route |-> route,
     call |-> [problem_type |-> state.problem_type,
               suggested_agent |-> state.suggested_agent,
               user_query |-> state.user_query, context |-> state.context]]

RouteFrom(state, llm) ==
    Routed(state, route_to_agent(state.problem_type, state.user_query, state.context,
                                 state.suggested_agent, llm))

agent_manager_node(state, llm) == RouteFrom(OriginalAgentState(state), llm)

context_collector_node(state) == [state EXCEPT !.iteration_count = @ + 1]

\* should_continue_or_clarify answering "continue" whatever the state.
should_continue_or_clarify_never_clarifies(state) == "continue"

\* should_continue_or_clarify: every path but the first returns "continue".
should_continue_or_clarify(state) ==
    IF state.requires_clarification THEN "clarify" ELSE "continue"

knowledge_retrieval_node(state) == [state EXCEPT !.knowledge_insights = TRUE]

llm_response_node(state) ==
    IF state.action_plan.raw > 0
    THEN IF state.knowledge_insights
         THEN [state EXCEPT !.action_plan = Wrap(@)] ELSE state
    ELSE IF state.response_text.raw > 0
    THEN IF state.knowledge_insights
         THEN [state EXCEPT !.response_text = Wrap(@)] ELSE state
    ELSE state

feedback_node(state) == [state EXCEPT !.user_feedback = TRUE]

IdleOut == Out(NoResponse, 0)

IdleRoute == [raised |-> FALSE, resp |-> NoResponse, agent |-> "", modelCalls |-> 0]

IdleCall ==
    [problem_type |-> PyStr(<<>>), suggested_agent |-> PyStr(<<>>), user_query |-> <<>>,
     context |-> EmptyCtx]

\* The graph after agent_manager: context_collector -> (clarify: END | continue:
\* knowledge_retrieval -> llm_response -> feedback -> END).
FromCollector(collected) ==
    IF should_continue_or_clarify(collected) = "clarify"
    THEN collected
    ELSE feedback_node(llm_response_node(knowledge_retrieval_node(collected)))

FromManager(managed, requests) ==
    [raised |-> FALSE,
     state |-> FromCollector(context_collector_node(managed.state)),
     requests |-> requests,
     route |-> managed.route, call |-> managed.call]

\* The graph after problem_classifier; an exception of a node ends the run.
FromClassifier(classified, llm) ==
    IF classified.raised
    THEN [raised |-> TRUE, state |-> classified.state, requests |-> <<>>,
          route |-> IdleRoute, call |-> IdleCall]
    ELSE FromManager(agent_manager_node(classified.state, llm), classified.requests)

\* MultiAgentWorkflow.execute: the graph input -> problem_classifier ->
\* agent_manager -> context_collector -> ...
execute(user_query, context, original_query, cls, llm) ==
    FromClassifier(
        problem_classifier_node(
            input_node(InitialState(user_query, context, original_query)), cls),
        llm)

\* The body of a WorkflowResponse, with the HTTP status it is sent under.
WorkflowResponse(status, state, user_query) ==
    [status |-> status,
     problem_type |-> state.problem_type,
     suggested_agent |-> state.suggested_agent,
     confidence |-> state.confidence,
     action_plan |-> state.action_plan,
     response_text |-> state.response_text,
     user_query |-> user_query,
     next_questions |-> state.next_questions,
     requires_clarification |-> state.requires_clarification,
     context |-> state.context,
     iteration_count |-> state.iteration_count]

IdleResponse == WorkflowResponse(0, InitialState(<<>>, EmptyCtx, <<>>), <<>>)

\* POST /workflow/execute: 200 with the final state's fields, 500 when execute or
\* the validation of the response model (problem_type: str, suggested_agent: str,
\* confidence: float) raises.
Respond(result, user_query) ==
    [response |->
        IF /\ ~result.raised
           /\ result.state.problem_type.tag = "str"
           /\ result.state.suggested_agent.tag = "str"
           /\ result.state.confidence.tag = "num"
        THEN WorkflowResponse(200, result.state, user_query)
        ELSE WorkflowResponse(500, InitialState(<<>>, EmptyCtx, <<>>), user_query),
     requests |-> result.requests,
     route |-> result.route,
     call |-> result.call]

execute_workflow(request, cls, llm) ==
    Respond(execute(request.user_query, request.context, request.original_query,
                    cls, llm),
            request.user_query)

\* ------------------------------------------------------------ workflow inputs

\* What the environment does to a classification request.
ClsTypes == {"Attrition", "Culture", "Performance", "Other", "Unknown", "Compensation"}

ClsFailure == [transport |-> "ok", ok |-> FALSE, problem_type |-> "", confidence |-> 0]

ClsOutcomes ==
    {ClsFailure, [ClsFailure EXCEPT !.transport = "error"]} \cup
    [transport : {"ok"}, ok : {TRUE}, problem_type : ClsTypes, confidence : {9}]

\* The chat-completion outcomes a workflow turn is run against.
WorkflowLLMOutcomes ==
    {o \in LLMOutcomes :
        o.ok => /\ o.ctxmode # "other"
                /\ (o.next_questions # <<>>) <=> o.requires_clarification}

\* The bookkeeping keys a request's context may carry.
ContextProblemTypes == {"absent", "", "Culture"}
ContextAgents == {"absent", ""} \cup AgentClasses \cup {"UnknownAgent"}
ContextConfidences == {"absent", "zero", "positive", "text"}

IdentEntry(key, x) ==
    CASE x = "absent" -> EmptyCtx
      [] x = "" -> (key :> PyStr(<<>>))
      [] OTHER -> (key :> Ident(x))

ConfidenceEntry(x) ==
    CASE x = "absent" -> EmptyCtx
      [] x = "zero" -> ("confidence" :> PyNum(0))
      [] x = "positive" -> ("confidence" :> PyNum(9))
      [] OTHER -> ("confidence" :> Ident("high"))

ClassificationContexts ==
    {IdentEntry("problem_type", pt) @@ IdentEntry("suggested_agent", sa)
        @@ ConfidenceEntry(cf) :
            pt \in ContextProblemTypes, sa \in ContextAgents, cf \in ContextConfidences}

\* The answers a client adds to the context it resends.
AttritionFields == get_required_context_fields("AttritionAgent")

Answers ==
    {EmptyCtx,
     MkCtx(AttritionFields, <<"val", "absent", "absent", "absent">>),
     MkCtx(AttritionFields, <<"absent", "val", "val", "val">>),
     MkCtx(AttritionFields, <<"val", "val", "val", "val">>)}

GatheredContexts ==
    Answers \cup {MkCtx(get_required_context_fields("CultureAgent"), [i \in 1..4 |-> "val"])}

WorkflowQueries == {<<"h", "i">>, <<"T", "h", "a", "n", "k", "s">>, <<" ">>}

OriginalQueries == {<<>>, <<"w", "h", "y">>}

\* history: "first" for a conversation's first request, "echo" while every resend
\* so far carried the previous response's context unchanged, "answered" otherwise.
Request(user_query, original_query, context, history) ==
    [user_query |-> user_query, original_query |-> original_query,
     context |-> context, history |-> history]

IdleRequest == Request(<<>>, <<>>, EmptyCtx, "first")

Requests ==
    {Request(q, o, c @@ g, "first") :
        q \in WorkflowQueries, o \in OriginalQueries,
        c \in ClassificationContexts, g \in GatheredContexts}

\* ------------------------------------------------------------ Spec
\* One POST /workflow/execute with any of the requests above.

\* The environment answers only the calls a turn makes: an outcome is drawn for
\* the classification request if the turn sends one, and for the chat-completion
\* call if the advisor makes one.
ClsAsked(request, CS) ==
    IF execute_workflow(request, ClsFailure, LLMFailure).requests = <<>>
    THEN {ClsFailure} ELSE CS

LLMAsked(request, cls, LS) ==
    IF execute_workflow(request, cls, LLMFailure).route.modelCalls = 0
    THEN {LLMFailure} ELSE LS

\* The record of a turn: the response, the classification requests sent, and
\* what the Advisor Manager and the advisor did.
TurnDone(run, llm) ==
    /\ wfOut' = run.response
    /\ classifyLog' = run.requests
    /\ call' = run.call
    /\ routeOut' = run.route
    /\ agentOut' = IF run.route.agent = "" THEN IdleOut
                   ELSE RunAgent(run.route.agent, run.call.user_query,
                                 run.call.context, llm)
    /\ modelLog' = IF run.route.modelCalls > 0 THEN <<llm>> ELSE <<>>

ExecuteWith(CS, LS) ==
    /\ phase = "pending"
    /\ \E cls \in ClsAsked(req, CS) : \E llm \in LLMAsked(req, cls, LS) :
        TurnDone(execute_workflow(req, cls, llm), llm)
    /\ phase' = "done"
    /\ UNCHANGED <<utilVars, req, turn, leadVars, apiVars, enrichVars>>

Init ==
    /\ phase = "pending"
    /\ req \in Requests
    /\ wfOut = IdleResponse
    /\ classifyLog = <<>>
    /\ turn = 1
    /\ tables = EmptyDb
    /\ lastCreate = IdleCreate
    /\ call = IdleCall
    /\ agentOut = IdleOut
    /\ routeOut = IdleRoute
    /\ modelLog = <<>>
    /\ IdleApi
    /\ IdleEnrich
    /\ IdleUtil

ExecuteWorkflow == ExecuteWith(ClsOutcomes, WorkflowLLMOutcomes)

Next == ExecuteWorkflow

Spec == Init /\ [][Next]_vars

\* ------------------------------------------------------------ SpecConversation
\* A conversation: the first request carries no context; the client then resends
\* the context of the previous response, unchanged or with answers added.

\* The largest number of turns of a conversation.
MaxTurns == 2

ConversationQueries == {<<"h", "i">>, <<"T", "h", "a", "n", "k", "s">>}

ConversationClsOutcomes ==
    {c \in ClsOutcomes :
        c.transport = "error" \/ (c.ok /\ c.problem_type \in {"Attrition", "Culture", "Other"})}

ConversationLLMOutcomes ==
    {o \in WorkflowLLMOutcomes : o.ok => (o.action_plan.len > 50 /\ o.ctxmode = "extend")}

InitConversation ==
    /\ phase = "pending"
    /\ req \in {Request(q, <<>>, EmptyCtx, "first") : q \in ConversationQueries}
    /\ wfOut = IdleResponse
    /\ classifyLog = <<>>
    /\ turn = 1
    /\ tables = EmptyDb
    /\ lastCreate = IdleCreate
    /\ call = IdleCall
    /\ agentOut = IdleOut
    /\ routeOut = IdleRoute
    /\ modelLog = <<>>
    /\ IdleApi
    /\ IdleEnrich
    /\ IdleUtil

ConversationTurn == ExecuteWith(ConversationClsOutcomes, ConversationLLMOutcomes)

\* The client's next request: the original query is the conversation's first
\* utterance, the context is the one the previous response returned.
ClientResend ==
    /\ phase = "done"
    /\ wfOut.status = 200
    /\ turn < MaxTurns
    /\ \E q \in ConversationQueries, a \in Answers :
        req' = Request(q,
                       IF req.original_query # <<>> THEN req.original_query
                       ELSE req.user_query,
                       a @@ wfOut.context,
                       IF a = EmptyCtx /\ req.history # "answered" THEN "echo"
                       ELSE "answered")
    /\ turn' = turn + 1
    /\ phase' = "pending"
    /\ UNCHANGED <<utilVars, wfOut, classifyLog, advisorVars, leadVars, apiVars, enrichVars>>

NextConversation == ConversationTurn \/ ClientResend

SpecConversation == InitConversation /\ [][NextConversation]_vars

\* ------------------------------------------------------------ SpecAdvisor
\* One call of the Advisor Manager with any of the calls above.

InitAdvisor ==
    /\ phase = "pending"
    /\ call \in AdvisorCalls
    /\ agentOut = IdleOut
    /\ routeOut = IdleRoute
    /\ modelLog = <<>>
    /\ req = IdleRequest
    /\ wfOut = IdleResponse
    /\ classifyLog = <<>>
    /\ turn = 0
    /\ tables = EmptyDb
    /\ lastCreate = IdleCreate
    /\ IdleApi
    /\ IdleEnrich
    /\ IdleUtil

RouteToAgent ==
    /\ phase = "pending"
    /\ \E llm \in LLMOutcomes :
        LET route == route_to_agent(call.problem_type, call.user_query, call.context,
                                    call.suggested_agent, llm)
        IN /\ routeOut' = route
           /\ agentOut' = RunAgent(route.agent, call.user_query, call.context, llm)
           /\ modelLog' = IF route.modelCalls > 0 THEN <<llm>> ELSE <<>>
    /\ phase' = "done"
    /\ UNCHANGED <<utilVars, call, workflowVars, leadVars, apiVars, enrichVars>>

NextAdvisor == RouteToAgent

SpecAdvisor == InitAdvisor /\ [][NextAdvisor]_vars


\* ------------------------------------------------------------ advisor claims

\* A required field is missing from a context: its key is absent or its value is
\* falsy.
FieldMissing(context, f) == f \notin DOMAIN context \/ ~Truthy(context[f])

RECURSIVE MissingFields(_, _)
MissingFields(F, context) ==
    IF F = <<>> THEN <<>>
    ELSE (IF FieldMissing(context, Head(F)) THEN <<Head(F)>> ELSE <<>>)
         \o MissingFields(Tail(F), context)

StandardCallDone == phase = "done" /\ routeOut.agent \in StandardAgents

AskedForClarification ==
    /\ ~agentOut.raised
    /\ agentOut.resp.requires_clarification
    /\ agentOut.resp.confidence = 5
    /\ agentOut.modelCalls = 0

\* C4: a standard advisor's run_agent returns requires_clarification = true with
\* confidence 0.5 and makes no model call if and only if a required field is
\* missing from the context; with every required field present it makes exactly
\* one model call.
C4_ClarifyIffMissing ==
    StandardCallDone =>
        LET missing == MissingFields(get_required_context_fields(routeOut.agent),
                                     call.context)
        IN /\ AskedForClarification <=> (missing # <<>>)
           /\ (missing = <<>>) => (agentOut.modelCalls = 1)

\* C5: for a standard advisor and a context with a required field missing, the
\* response returned to the caller has requires_clarification = true and its
\* next_questions holds one question per missing required field, in
\* required-field order.
C5_OneQuestionPerMissingField ==
    StandardCallDone =>
        LET missing == MissingFields(get_required_context_fields(routeOut.agent),
                                     call.context)
        IN (missing # <<>>) =>
              /\ ~routeOut.raised
              /\ routeOut.resp.requires_clarification
              /\ Len(routeOut.resp.next_questions) = Len(missing)
              /\ \A i \in 1..Len(missing) :
                    routeOut.resp.next_questions[i].key = missing[i]

ModelCallFailed == modelLog # <<>> /\ ~modelLog[1].ok

\* C7: a failure while running an advisor never leaves the Advisor Manager: when
\* the model call fails the advisor returns its fallback AgentResponse
\* (confidence 0.3, one follow-up question), when an exception escapes the advisor
\* route_to_agent returns the apology AgentResponse with confidence 0.3, and
\* route_to_agent never raises.
C7_RouteNeverRaises ==
    (phase = "done" /\ routeOut.agent # "") =>
        /\ ~routeOut.raised
        /\ ModelCallFailed =>
              /\ ~agentOut.raised
              /\ agentOut.resp.confidence = 3
              /\ Len(agentOut.resp.next_questions) = 1
        /\ agentOut.raised =>
              /\ routeOut.resp.action_plan = RouteErrorText
              /\ routeOut.resp.confidence = 3

CultureCallDone == phase = "done" /\ routeOut.agent = "CultureAgent"

\* A context value that is absent, None, or an empty or all-white-space string.
BlankField(context, f) ==
    \/ f \notin DOMAIN context
    \/ context[f].tag = "None"
    \/ /\ context[f].tag = "str"
       /\ \A i \in 1..Len(context[f].s) : context[f].s[i] \in {" ", "\t", "\n"}

CultureBlankFields ==
    {f \in SeqRange(get_required_context_fields("CultureAgent")) :
        BlankField(call.context, f)}

\* C8: the Culture advisor counts a required field as missing when it is absent,
\* None, or an empty or all-white-space string: for every context with such a
\* field run_agent returns requires_clarification = true with one question, for a
\* missing field, and makes no model call; when culture_issues = "" is the only
\* blank field the question asked is the culture_issues question.
C8_CultureBlankIsMissing ==
    (CultureCallDone /\ CultureBlankFields # {}) =>
        /\ ~agentOut.raised
        /\ agentOut.resp.requires_clarification
        /\ agentOut.modelCalls = 0
        /\ Len(agentOut.resp.next_questions) = 1
        /\ agentOut.resp.next_questions[1].key \in CultureBlankFields
        /\ (CultureBlankFields = {"culture_issues"}) =>
              agentOut.resp.next_questions[1] = question_bank[2]

C8_Witness ==
    /\ CultureCallDone
    /\ CultureBlankFields = {"culture_issues"}
    /\ "culture_issues" \in DOMAIN call.context
    /\ call.context["culture_issues"] = PyStr(<<>>)
    /\ agentOut.resp.requires_clarification
    /\ agentOut.resp.next_questions = <<question_bank[2]>>

\* The utterance holds one of the gratitude keywords, whatever its case.
HoldsGratitude(q) ==
    \E i \in 1..Len(q) : \E j \in i..Len(q) :
        Lower(SubSeq(q, i, j)) \in
            {<<"t", "h", "a", "n", "k">>, <<"t", "h", "a", "n", "k", "s">>,
             <<"a", "p", "p", "r", "e", "c", "i", "a", "t", "e">>,
             <<"g", "r", "a", "t", "e", "f", "u", "l">>, <<"t", "y">>}

DefaultCallDone == phase = "done" /\ routeOut.agent = "DefaultAgent"

\* C9: for every context, when the Default advisor receives an utterance that
\* holds one of the keywords thank, thanks, appreciate, grateful, ty
\* (case-insensitive), it returns requires_clarification = false, an empty
\* next_questions list and the input context, without invoking the model.
C9_DefaultGratitude ==
    (DefaultCallDone /\ HoldsGratitude(call.user_query)) =>
        /\ ~agentOut.raised
        /\ ~agentOut.resp.requires_clarification
        /\ agentOut.resp.next_questions = <<>>
        /\ agentOut.resp.updated_context = call.context
        /\ agentOut.modelCalls = 0
        /\ modelLog = <<>>

C9_Witness ==
    /\ DefaultCallDone
    /\ call.user_query = <<"T", "h", "a", "n", "k", "s">>
    /\ call.context # EmptyCtx
    /\ ~agentOut.resp.requires_clarification
    /\ agentOut.resp.updated_context = call.context
    /\ agentOut.modelCalls = 0

\* ------------------------------------------------------------ workflow claims

\* The context holds s under key as a non-empty string.
HoldsText(context, key) ==
    key \in DOMAIN context /\ context[key].tag = "str" /\ Len(context[key].s) > 0

\* The context holds a positive number under confidence.
HoldsPositiveConfidence(context) ==
    /\ "confidence" \in DOMAIN context
    /\ context["confidence"].tag = "num"
    /\ context["confidence"].n > 0

HoldsClassification(context) ==
    /\ HoldsText(context, "problem_type")
    /\ HoldsText(context, "suggested_agent")
    /\ HoldsPositiveConfidence(context)

\* C1: in a conversation whose first request carries no context and whose later
\* turns resend the previous response's context unchanged, the classification
\* service is called on the first turn only: the first response's context carries
\* problem_type, suggested_agent and a positive confidence, and no later turn
\* sends a classification request.
C1_ClassifiedOnFirstTurnOnly ==
    /\ (phase = "done" /\ turn = 1 /\ wfOut.status = 200) =>
            /\ classifyLog # <<>>
            /\ HoldsClassification(wfOut.context)
    /\ (phase = "done" /\ turn > 1 /\ req.history = "echo") => classifyLog = <<>>

\* C2: an execute call whose context holds a non-empty problem_type, a non-empty
\* suggested_agent and a confidence > 0 sends no classification request and
\* returns the context's problem_type, suggested_agent and confidence, whatever
\* the user_query.
C2_CachedClassification ==
    (phase = "done" /\ HoldsClassification(req.context)) =>
        /\ classifyLog = <<>>
        /\ wfOut.status = 200
        /\ wfOut.problem_type = req.context["problem_type"]
        /\ wfOut.suggested_agent = req.context["suggested_agent"]
        /\ wfOut.confidence = req.context["confidence"]

C2_Witness ==
    /\ phase = "done"
    /\ HoldsClassification(req.context)
    /\ req.context["suggested_agent"] = Ident("PerformanceAgent")
    /\ req.user_query = <<"T", "h", "a", "n", "k", "s">>
    /\ wfOut.status = 200
    /\ wfOut.suggested_agent = Ident("PerformanceAgent")
    /\ wfOut.confidence = PyNum(9)
    /\ classifyLog = <<>>

\* The context's suggested_agent names one of the eight advisors.
NamesAdvisor(context) ==
    /\ "suggested_agent" \in DOMAIN context
    /\ \E a \in AgentClasses : context["suggested_agent"] = Ident(a)

AdvisorInvoked == phase = "done" /\ routeOut.agent # ""

AttritionTurnDone == phase = "done" /\ routeOut.agent = "AttritionAgent"

\* C6: in any sequence of turns routed to the Attrition advisor, a turn whose
\* context lacks one of team_size, turnover_rate, department, time_period returns
\* an empty action_plan with requires_clarification = true, and a non-empty
\* action_plan is returned only on a turn whose context holds all four fields.
C6_AttritionPlanNeedsAllFields ==
    AttritionTurnDone =>
        LET missing == MissingFields(AttritionFields, req.context)
        IN /\ (missing # <<>>) =>
                (wfOut.action_plan.raw = 0 /\ wfOut.requires_clarification)
           /\ (wfOut.action_plan.raw > 0) => (missing = <<>>)

\* ------------------------------------------------------------ SpecLeads
\* Calls of create_lead, one after the other, on a database that starts empty.

\* The largest number of create_lead calls.
MaxCreates == 2

Faults == {"none", "company_insert", "lead_insert", "enrichment_insert"}

LeadInputs ==
    {("name" :> Ident("Ann")) @@ ("email" :> Ident(e)) @@ ("designation" :> Ident("CTO"))
        @@ IdentEntry("company", c) @@ IdentEntry("lead_stage", st) :
            e \in {"ann@acme.io", "bob@acme.io"},
            c \in {"absent", "", "Acme", "Globex"},
            st \in {"absent", "won"}}

InitLeads ==
    /\ phase = "idle"
    /\ tables = EmptyDb
    /\ lastCreate = IdleCreate
    /\ req = IdleRequest
    /\ wfOut = IdleResponse
    /\ classifyLog = <<>>
    /\ turn = 0
    /\ call = IdleCall
    /\ agentOut = IdleOut
    /\ routeOut = IdleRoute
    /\ modelLog = <<>>
    /\ IdleApi
    /\ IdleEnrich
    /\ IdleUtil

CreateDone(before, lead_data, fault, done, calls) ==
    /\ tables' = done.db
    /\ lastCreate' = [CreateRecord(lead_data, fault, before, done) EXCEPT !.calls = calls]

CreateLead ==
    /\ lastCreate.calls < MaxCreates
    /\ \E lead_data \in LeadInputs, fault \in Faults :
        CreateDone(tables, lead_data, fault, create_lead(tables, lead_data, fault),
                   lastCreate.calls + 1)
    /\ UNCHANGED <<utilVars, phase, advisorVars, workflowVars, apiVars, enrichVars>>

NextLeads == CreateLead

SpecLeads == InitLeads /\ [][NextLeads]_vars

\* ------------------------------------------------------------ lead claims

CreateSucceeded == lastCreate.calls > 0 /\ ~lastCreate.raised

\* The company name the last call was given, when it was given one.
GivenCompany ==
    /\ "company" \in DOMAIN lastCreate.lead_data
    /\ Truthy(lastCreate.lead_data["company"])

AddedCompanies == tables.companies \ lastCreate.before.companies
AddedLeads == tables.leads \ lastCreate.before.leads
AddedJobs == tables.enrichment_jobs \ lastCreate.before.enrichment_jobs

NothingRemoved ==
    /\ lastCreate.before.companies \subseteq tables.companies
    /\ lastCreate.before.leads \subseteq tables.leads
    /\ lastCreate.before.enrichment_jobs \subseteq tables.enrichment_jobs

HTTPException(status_code) == [raised |-> TRUE, http |-> status_code, duplicate |-> FALSE]

DatabaseError(duplicate) == [raised |-> TRUE, http |-> 0, duplicate |-> duplicate]

NoException == [raised |-> FALSE, http |-> 0, duplicate |-> FALSE]

\* The lead rows WHERE id = :lead_id
LeadsWithId(db, lead_id) == {l \in db.leads : l.id = lead_id}

\* create_lead raised the unique violation of leads.email, not a fault.
DuplicateRaised(db, lead_data, fault) ==
    /\ DuplicateEmail(db, Get(lead_data, "email", PyNone))
    /\ fault # "lead_insert"
    /\ ~get_or_create_company(db, Get(lead_data, "company", PyNone), fault).raised

\* POST /leads
endpoint_create_lead(lead_data, db, fault) ==
    LET done == create_lead(db, lead_data, fault)
        exc == IF {"name", "email", "designation", "company"} \ DOMAIN lead_data # {}
               THEN HTTPException(400)
               ELSE IF done.raised
               THEN DatabaseError(DuplicateRaised(db, lead_data, fault))
               ELSE NoException
    IN [status |-> IF ~exc.raised THEN 201 ELSE IF exc.duplicate THEN 400 ELSE 500,
        db |-> IF exc.http # 0 THEN db ELSE done.db]

\* GET /leads/{lead_id}; fault = "statement" is a SELECT the database rejects.
endpoint_read_lead(lead_id, db, fault) ==
    LET exc == IF fault = "statement" THEN DatabaseError(FALSE)
               ELSE IF LeadsWithId(db, lead_id) = {} THEN HTTPException(404)
               ELSE NoException
    IN [status |-> IF exc.raised THEN 500 ELSE 200, db |-> db]

\* PUT /leads/{lead_id}: lead_service.update_lead resolves the company (and
\* commits a new one), update_table_row drops the None values and runs the
\* UPDATE, which nothing commits before get_db closes the session.
endpoint_update_lead(lead_id, update_data, db, fault) ==
    LET got == IF "company" \in DOMAIN update_data /\ Truthy(update_data["company"])
               THEN get_or_create_company(db, update_data["company"], fault)
               ELSE [db |-> db, raised |-> FALSE, company |-> NoCompany]
        columns == {k \in DOMAIN update_data \ {"company"} : update_data[k] # PyNone}
                   \cup (IF got.company # NoCompany THEN {"company_id"} ELSE {})
        taken == /\ "email" \in columns
                 /\ \E l \in db.leads : l.id # lead_id /\ l.email = update_data["email"]
        exc == IF got.raised THEN DatabaseError(FALSE)
               ELSE IF columns = {} THEN HTTPException(404)
               ELSE IF fault = "statement" THEN DatabaseError(FALSE)
               ELSE IF LeadsWithId(db, lead_id) = {} THEN HTTPException(404)
               ELSE IF taken THEN DatabaseError(TRUE)
               ELSE NoException
    IN [status |-> IF ~exc.raised THEN 200 ELSE IF exc.duplicate THEN 400 ELSE 500,
        db |-> got.db]

\* The State fields the thirteen stages of the enrichment graph fill, in the
\* order of the graph's edges, and the table that keeps each of them.
StageFields ==
    <<"google_results", "linkedin_url", "linkedin_details_raw", "linkedin_details",
      "company_search_results", "company_linkedin_url", "company_linkedin_details",
      "company_linkedin_analysis", "lead_score", "glassdoor_url", "glassdoor_details",
      "glassdoor_analysis", "company_insights">>

LeadColumns ==
    {"google_results", "linkedin_url", "linkedin_details_raw", "linkedin_details",
     "lead_score", "company_search_results"}

\* A column of a row; a column the INSERT did not name is NULL.
Column(row, c) == IF c \in DOMAIN row THEN row[c] ELSE PyNone

\* The row of leads LEFT JOIN companies LEFT JOIN enrichment_jobs that
\* enrich_leads selects for a lead and sends to the task.
db_lead_dict(db, l) ==
    LET cs == {c \in db.companies : c.id = l.company_id}
        company == IF cs = {} THEN NoCompany ELSE CHOOSE c \in cs : TRUE
        jobs == {j \in db.enrichment_jobs : j.lead_id = l.id}
    IN [lead_id |-> l.id, company_id |-> company.id, name |-> l.name,
        company_name |-> IF cs = {} THEN PyNone ELSE PyStr(company.name),
        designation |-> l.designation, email |-> l.email, lead_stage |-> l.lead_stage,
        enrichment_status |-> IF jobs = {} THEN "" ELSE (CHOOSE j \in jobs : TRUE).status,
        fields |-> [f \in {StageFields[i] : i \in DOMAIN StageFields} |->
                       IF f \in LeadColumns THEN Column(l, f) ELSE Column(company, f)]]

\* The most leads one POST /leads/enrich takes.
MaxBatch == 100

\* enrich_leads' loop body for the lead at position i: the SELECT raises
\* (fault "database"), or finds no row and the lead is skipped, or send_task
\* raises (fault "broker"), or the task is sent.
QueueOutcome_drops_failures(lead, db, fault, i) ==
    IF fault.kind = "database" /\ fault.at = i THEN "skipped"
    ELSE IF LeadsWithId(db, lead["id"].n) = {} THEN "skipped"
    ELSE IF fault.kind = "broker" /\ fault.at = i THEN "skipped"
    ELSE "pending"

QueueOutcome(lead, db, fault, i) ==
    IF fault.kind = "database" /\ fault.at = i THEN "failed"
    ELSE IF LeadsWithId(db, lead["id"].n) = {} THEN "skipped"
    ELSE IF fault.kind = "broker" /\ fault.at = i THEN "failed"
    ELSE "pending"

\* isinstance(lead, dict): a request entry that is a JSON object.
IsObject(x) == "tag" \notin DOMAIN x

\* enrich_leads validating each lead when its turn to be sent comes.
enrich_leads_validates_as_it_goes(leads_data, db, fault, first_task_id) ==
    LET is_single == leads_data.tag # "list"
        leads_list == IF is_single THEN <<leads_data.value>> ELSE leads_data.value
        required_fields == {"id", "name", "email", "designation", "company"}
        outcome == [i \in DOMAIN leads_list |->
                       IF /\ IsObject(leads_list[i])
                          /\ required_fields \subseteq DOMAIN leads_list[i]
                       THEN QueueOutcome(leads_list[i], db, fault, i) ELSE "invalid"]
        Attempted(i) == outcome[i] # "skipped"
        Pending(i) == outcome[i] = "pending"
        task_id == [i \in DOMAIN leads_list |->
                       first_task_id + Cardinality({j \in 1..i : outcome[j] = "pending"}) - 1]
        Result(i) == [email |-> leads_list[i]["email"], status |-> outcome[i],
                      task_id |-> IF outcome[i] = "pending" THEN task_id[i] ELSE 0]
        Message(i) ==
            [task_id |-> task_id[i],
             lead_data |-> db_lead_dict(db, CHOOSE l \in LeadsWithId(db, leads_list[i]["id"].n) : TRUE)]
        Each(F(_), s) == [k \in DOMAIN s |-> F(s[k])]
        positions == [i \in DOMAIN leads_list |-> i]
    IN IF leads_list = <<>> \/ Len(leads_list) > MaxBatch
       THEN [status |-> 400, sent |-> <<>>]
       ELSE IF \E i \in DOMAIN leads_list : outcome[i] = "invalid"
       THEN [status |-> 400,
             sent |-> Each(Message,
                           SelectSeq(positions,
                                     LAMBDA i : /\ Pending(i)
                                                /\ \A j \in 1..i : outcome[j] # "invalid"))]
       ELSE [status |-> 202,
             results |-> Each(Result, SelectSeq(positions, Attempted)),
             is_single |-> is_single,
             sent |-> Each(Message, SelectSeq(positions, Pending))]

\* POST /leads/enrich. leads_data is a dict or a list; first_task_id
\* is the id the broker gives the next task. sent are the messages to the
\* broker.
enrich_leads(leads_data, db, fault, first_task_id) ==
    LET is_single == leads_data.tag # "list"
        leads_list == IF is_single THEN <<leads_data.value>> ELSE leads_data.value
        required_fields == {"id", "name", "email", "designation", "company"}
        outcome == [i \in DOMAIN leads_list |->
                       IF /\ IsObject(leads_list[i])
                          /\ required_fields \subseteq DOMAIN leads_list[i]
                       THEN QueueOutcome(leads_list[i], db, fault, i) ELSE "invalid"]
        Attempted(i) == outcome[i] # "skipped"
        Pending(i) == outcome[i] = "pending"
        task_id == [i \in DOMAIN leads_list |->
                       first_task_id + Cardinality({j \in 1..i : outcome[j] = "pending"}) - 1]
        Result(i) == [email |-> leads_list[i]["email"], status |-> outcome[i],
                      task_id |-> IF outcome[i] = "pending" THEN task_id[i] ELSE 0]
        Message(i) ==
            [task_id |-> task_id[i],
             lead_data |-> db_lead_dict(db, CHOOSE l \in LeadsWithId(db, leads_list[i]["id"].n) : TRUE)]
        Each(F(_), s) == [k \in DOMAIN s |-> F(s[k])]
        positions == [i \in DOMAIN leads_list |-> i]
    IN IF leads_list = <<>> \/ Len(leads_list) > MaxBatch
       THEN [status |-> 400, sent |-> <<>>]
       ELSE IF \E i \in DOMAIN leads_list : outcome[i] = "invalid"
       THEN [status |-> 400, sent |-> <<>>]
       ELSE [status |-> 202,
             results |-> Each(Result, SelectSeq(positions, Attempted)),
             is_single |-> is_single,
             sent |-> Each(Message, SelectSeq(positions, Pending))]

\* ------------------------------------------------------------ SpecLeadsApi
\* One request to the leads HTTP API, on a database that holds two leads of
\* one company.

\* Everything of the advisory back end at rest.
IdleAdvisory ==
    /\ req = IdleRequest
    /\ wfOut = IdleResponse
    /\ classifyLog = <<>>
    /\ turn = 0
    /\ call = IdleCall
    /\ agentOut = IdleOut
    /\ routeOut = IdleRoute
    /\ modelLog = <<>>

SeedLead(e) ==
    ("name" :> Ident("Ann")) @@ ("email" :> Ident(e)) @@ ("designation" :> Ident("CTO"))
        @@ ("company" :> Ident("Acme"))

\* The rows two create_lead calls leave: company 1, leads 2 and 4, jobs 3 and 5.
SeededDb ==
    create_lead(create_lead(EmptyDb, SeedLead("ann@acme.io"), "none").db,
                SeedLead("bob@acme.io"), "none").db

\* A lead id no row has.
UnknownId == 9

LeadIds == {l.id : l \in SeededDb.leads} \cup {UnknownId}

\* The lead objects of a request body: all five fields, or one field short, or
\* an empty object.
LeadObjects ==
    {[k \in keys |-> IF k = "id" THEN PyNum(id) ELSE Ident(k)] :
        id \in LeadIds,
        keys \in {{"id", "name", "email", "designation", "company"},
                  {"id", "name", "email", "designation"}, {}}}

\* A request entry that is no object.
NotAnObject == PyStr(<<"x">>)

BatchSizes == {0, 1, 2, MaxBatch - 1, MaxBatch, MaxBatch + 1}

\* A single object, or a list: n times the same object but for the last.
EnrichBodies ==
    {[tag |-> "dict", value |-> o] : o \in LeadObjects}
    \cup {[tag |-> "list", value |-> [i \in 1..n |-> IF i = n THEN last ELSE base]] :
            n \in BatchSizes,
            base \in {o \in LeadObjects : DOMAIN o # {} /\ "company" \in DOMAIN o},
            last \in LeadObjects \cup {NotAnObject}}

EnrichFaults ==
    {[kind |-> "none", at |-> 0]}
    \cup {[kind |-> k, at |-> i] : k \in {"database", "broker"}, i \in {1, MaxBatch}}

\* The bodies of POST /leads and PUT /leads/{id}: the four fields of a lead,
\* some of them left out, one of them None.
LeadBodies ==
    {[k \in keys |-> IF k = "email" THEN Ident(e) ELSE IF k = none THEN PyNone ELSE Ident(k)] :
        keys \in SUBSET {"name", "email", "designation", "company"},
        e \in {"ann@acme.io", "eve@acme.io"},
        none \in {"", "name"}}

ApiFaults == Faults \cup {"statement"}

InitLeadsApi ==
    /\ phase = "idle"
    /\ tables = SeededDb
    /\ lastCreate = IdleCreate
    /\ IdleAdvisory
    /\ IdleApi
    /\ IdleEnrich
    /\ IdleUtil

\* SessionLocal(): a new session, for the n-th call of the function named by.
SessionLocal(by, n) == [by |-> by, n |-> n, state |-> "open"]

Session_close(db) == [db EXCEPT !.state = "closed"]

\* A statement on a session, which a closed session begins anew for.
Session_execute(db) == [db EXCEPT !.state = "open"]

\* get_db up to its yield, and from its yield on: the generator is resumed
\* when the caller is done, or the caller's exception (raised) is thrown into
\* it, or it is collected while suspended.
get_db(by, n) == SessionLocal(by, n)

get_db_exit_closes_on_return(db, raised) == IF raised THEN db ELSE Session_close(db)

get_db_exit(db, raised) == Session_close(db)

\* Depends(get_db) around a handler whose response has the given status: an
\* error status is an HTTPException the handler raised.
Depends_get_db(by, n, status_code) == get_db_exit(get_db(by, n), status_code >= 400)

\* The handler answered: the response, the rows it committed, the tasks it
\* sent and the session it was given.
Answered(request, response) ==
    /\ phase' = "done"
    /\ httpReq' = request
    /\ httpResp' = [k \in DOMAIN response \ {"db", "sent"} |-> response[k]]
    /\ tables' = IF "db" \in DOMAIN response THEN response.db ELSE tables
    /\ queue' = IF "sent" \in DOMAIN response THEN queue \o response.sent ELSE queue
    /\ sessions' = sessions \cup {Depends_get_db(request.endpoint, 1, response.status)}
    /\ UNCHANGED <<auth, trace, poll, lastCreate, contOut, advisorVars, workflowVars,
                   enrichVars>>

PostEnrich ==
    /\ phase = "idle"
    /\ \E leads_data \in EnrichBodies, fault \in EnrichFaults :
        Answered([endpoint |-> "enrich", body |-> leads_data, fault |-> fault],
                 enrich_leads(leads_data, tables, fault, Len(queue) + 1))

PostLead ==
    /\ phase = "idle"
    /\ \E lead_data \in LeadBodies, fault \in ApiFaults :
        Answered([endpoint |-> "create", body |-> lead_data, fault |-> fault],
                 endpoint_create_lead(lead_data, tables, fault))

GetLead ==
    /\ phase = "idle"
    /\ \E lead_id \in LeadIds, fault \in {"none", "statement"} :
        Answered([endpoint |-> "read", lead_id |-> lead_id, fault |-> fault],
                 endpoint_read_lead(lead_id, tables, fault))

PutLead ==
    /\ phase = "idle"
    /\ \E lead_id \in LeadIds, update_data \in LeadBodies, fault \in ApiFaults :
        Answered([endpoint |-> "update", lead_id |-> lead_id, body |-> update_data,
                  fault |-> fault],
                 endpoint_update_lead(lead_id, update_data, tables, fault))

NextLeadsApi == PostEnrich \/ PostLead \/ GetLead \/ PutLead

SpecLeadsApi == InitLeadsApi /\ [][NextLeadsApi]_vars

\* ------------------------------------------------------------ leads API claims

EnrichAnswered == phase = "done" /\ httpReq.endpoint = "enrich"

\* leads_list of the request under way.
RequestedLeads ==
    IF httpReq.body.tag = "list" THEN httpReq.body.value ELSE <<httpReq.body.value>>

\* Every lead of the request holds id, name, email, designation and company.
AllLeadsValid ==
    \A i \in DOMAIN RequestedLeads :
        {"id", "name", "email", "designation", "company"} \subseteq DOMAIN RequestedLeads[i]

\* The positions whose lead has a row, or whose SELECT the database rejected.
LookedUp ==
    {i \in DOMAIN RequestedLeads :
        \/ httpReq.fault.kind = "database" /\ httpReq.fault.at = i
        \/ \E l \in tables.leads : l.id = RequestedLeads[i]["id"].n}

EnrichLimits ==
    /\ (RequestedLeads = <<>> \/ Len(RequestedLeads) > MaxBatch) => httpResp.status = 400
    /\ (httpResp.status = 202) => (httpResp.is_single <=> httpReq.body.tag = "dict")

FullValidBatch ==
    httpReq.body.tag = "list" /\ Len(RequestedLeads) = MaxBatch /\ AllLeadsValid

\* C11 as stated: POST /leads/enrich rejects an empty list and a list of more
\* than 100 entries with 400; a list of exactly 100 valid leads is accepted with
\* 202 and 100 result entries; is_single in the response is true exactly when
\* the request body was a single object rather than a list.
C11_HundredLeadsHundredResults ==
    EnrichAnswered =>
        /\ EnrichLimits
        /\ FullValidBatch => (httpResp.status = 202 /\ Len(httpResp.results) = MaxBatch)

\* C11 amended: POST /leads/enrich rejects an empty list and a list of more
\* than 100 entries with 400; a list of exactly 100 valid leads is accepted with
\* 202 and one result entry for each lead whose lookup found a row or failed
\* (100 entries when every id has a row), a lead whose id has no row getting no
\* entry; is_single is true exactly when the body was a single object.
C11_ResultPerLeadFound ==
    EnrichAnswered =>
        /\ EnrichLimits
        /\ FullValidBatch =>
            /\ httpResp.status = 202
            /\ Len(httpResp.results) = Cardinality(LookedUp)
            /\ (\A i \in DOMAIN RequestedLeads :
                    \E l \in tables.leads : l.id = RequestedLeads[i]["id"].n)
                => Len(httpResp.results) = MaxBatch

C11_Witness ==
    /\ EnrichAnswered
    /\ FullValidBatch
    /\ httpResp.status = 202
    /\ Len(httpResp.results) = MaxBatch - 1
    /\ Len(queue) = MaxBatch - 1

\* The request under way names a lead id that no row has.
NoSuchLead == {l \in tables.leads : l.id = httpReq.lead_id} = {}

\* C12: a client-fault error raised inside a leads handler reaches the client
\* with its own status: POST /leads with a required field (name, email,
\* designation, company) missing answers 400, and GET /leads/{id} and
\* PUT /leads/{id} for an id that does not exist answer 404; none of these is
\* converted into a 500. (The database rejects no statement of the request.)
C12_ClientFaultKeepsStatus ==
    (phase = "done" /\ httpReq.endpoint \in {"create", "read", "update"}
                    /\ httpReq.fault = "none") =>
        /\ (/\ httpReq.endpoint = "create"
            /\ {"name", "email", "designation", "company"} \ DOMAIN httpReq.body # {})
           => httpResp.status = 400
        /\ (httpReq.endpoint \in {"read", "update"} /\ NoSuchLead)
           => httpResp.status = 404

\* ------------------------------------------------------------ lead scoring
\* AIScoringEngine. output is what the chat-completion call does: it raises
\* (kind "error"), or answers a text that json.loads rejects (kind "text"), a
\* JSON value that is no object (kind "array"), or a JSON object (kind
\* "object", data its keys and values).

\* ScoreBreakdown's fields and their defaults.
ScoreDefaults ==
    [role_fit |-> 0, industry_alignment |-> 0, company_size |-> 0, geographic_fit |-> 0,
     psychographic_fit |-> 0, motivation_alignment |-> 0, micro_audience_bonus |-> 0,
     red_flags_penalty |-> 0, total_score |-> 0, grade |-> "F",
     recommended_campaign |-> "", priority |-> "Low", reasoning |-> ""]

\* ScoreBreakdown(**score_data): a dataclass takes the keyword arguments as
\* they are, checks no type or range, and raises TypeError for a keyword that
\* is no field.
ScoreBreakdown(score_data) ==
    [raised |-> ~(DOMAIN score_data \subseteq DOMAIN ScoreDefaults),
     fields |-> [k \in DOMAIN ScoreDefaults |->
                    IF k \in DOMAIN score_data THEN score_data[k] ELSE ScoreDefaults[k]]]

\* The model output is one score_lead's try block gets through.
Accepted(output) == output.kind = "object" /\ ~ScoreBreakdown(output.data).raised

\* score_lead without its except clause.
AIScoringEngine_score_lead_unguarded(output) ==
    IF Accepted(output)
    THEN [raised |-> FALSE, type |-> "dict", score |-> ScoreBreakdown(output.data).fields]
    ELSE [raised |-> TRUE, type |-> "", score |-> ScoreDefaults]

\* AIScoringEngine.score_lead: asdict of the ScoreBreakdown built from the
\* model's JSON object, or on any exception a ScoreBreakdown object of zeros.
AIScoringEngine_score_lead(output) ==
    IF Accepted(output)
    THEN [raised |-> FALSE, type |-> "dict", score |-> ScoreBreakdown(output.data).fields]
    ELSE [raised |-> FALSE, type |-> "ScoreBreakdown",
          score |-> [ScoreDefaults EXCEPT !.recommended_campaign = "General Outreach",
                                          !.reasoning = "Error in scoring"]]

\* ------------------------------------------------------------ enrichment stages
\* The nodes of the enrichment graph. A State is [name, company_name,
\* lead_details, fields], fields holding the thirteen outputs. env is what the
\* outside does to the calls of one node: search is serp_search's result
\* ("none": the request failed, "empty": no organic result, "organic"), scrape
\* is the trigger/poll/snapshot cycle ("error": the trigger request raises,
\* "no_snapshot", "timeout", "empty": get_snapshot returns None, "data"), model
\* is the structured chat-completion call ("fail": it raises, "null": it finds
\* nothing, "value"), score is the scoring model's output, value is the data a
\* successful call yields. A node returns its field's value or raises; made
\* are the kinds of call it made.

PyObj(x) == [tag |-> "obj", s |-> <<>>, n |-> 1, value |-> x]

Returned(value, made) == [raised |-> FALSE, value |-> value, made |-> made]

Raised(made) == [raised |-> TRUE, value |-> PyNone, made |-> made]

serp_search_google(state, env) ==
    IF state.fields.google_results # PyNone THEN Returned(state.fields.google_results, {})
    ELSE IF state.name = PyNone \/ state.company_name = PyNone THEN Raised({})
    ELSE Returned(IF env.search = "none" THEN PyNone ELSE env.value, {"search"})

find_linkedin_url(state, env) ==
    IF state.fields.linkedin_url # PyNone THEN Returned(state.fields.linkedin_url, {})
    ELSE Returned(IF env.model = "value" THEN env.value ELSE PyNone, {"model"})

scrape_linkedin(state, env) ==
    IF state.fields.linkedin_details_raw # PyNone
    THEN Returned(state.fields.linkedin_details_raw, {})
    ELSE IF env.scrape \in {"error", "no_snapshot", "timeout"} THEN Raised({"scrape"})
    ELSE Returned(IF env.scrape = "data" THEN env.value ELSE PyNone, {"scrape"})

analyze_linkedin(state, env) ==
    IF state.fields.linkedin_details # PyNone THEN Returned(state.fields.linkedin_details, {})
    ELSE IF env.model = "fail" THEN Raised({"model"})
    ELSE Returned(env.value, {"model"})

find_company_search_results(state, env) ==
    IF state.fields.company_search_results # PyNone
    THEN Returned(state.fields.company_search_results, {})
    ELSE IF state.company_name = PyNone THEN Raised({})
    ELSE IF env.search # "organic" THEN Raised({"search"})
    ELSE IF env.model = "fail" THEN Raised({"search", "scrape", "model"})
    ELSE Returned(env.value, {"search", "scrape", "model"})

find_company_linkedin_url(state, env) ==
    IF state.fields.company_linkedin_url # PyNone
    THEN Returned(state.fields.company_linkedin_url, {})
    ELSE IF env.model = "fail" THEN Raised({"search", "model"})
    ELSE Returned(IF env.model = "value" THEN env.value ELSE PyNone, {"search", "model"})

\* scrape_company_linkedin testing the field its comment names, the URL.
scrape_company_linkedin_checks_url(state, env) ==
    IF state.fields.company_linkedin_url # PyNone
    THEN Returned(state.fields.company_linkedin_url, {})
    ELSE IF env.scrape \in {"error", "no_snapshot", "timeout"} THEN Raised({"scrape"})
    ELSE Returned(IF env.scrape = "data" THEN env.value ELSE PyNone, {"scrape"})

scrape_company_linkedin(state, env) ==
    IF state.fields.company_linkedin_details # PyNone
    THEN Returned(state.fields.company_linkedin_details, {})
    ELSE IF env.scrape \in {"error", "no_snapshot", "timeout"} THEN Raised({"scrape"})
    ELSE Returned(IF env.scrape = "data" THEN env.value ELSE PyNone, {"scrape"})

analyze_company_linkedin(state, env) ==
    IF state.fields.company_linkedin_analysis # PyNone
    THEN Returned(state.fields.company_linkedin_analysis, {})
    ELSE IF env.model = "fail" THEN Raised({"model"})
    ELSE Returned(env.value, {"model"})

\* The score stage; AIScoringEngine's constructor is taken to succeed.
score_lead(state, env) ==
    IF state.fields.lead_score # PyNone THEN Returned(state.fields.lead_score, {})
    ELSE IF AIScoringEngine_score_lead(env.score).raised THEN Raised({"model"})
    ELSE Returned(PyObj(AIScoringEngine_score_lead(env.score)), {"model"})

\* find_glassdoor_url without the test of the search results.
find_glassdoor_url_asks_model(state, env) ==
    IF state.fields.glassdoor_url # PyNone THEN Returned(state.fields.glassdoor_url, {})
    ELSE IF ~Truthy(state.company_name) THEN Returned(PyNone, {})
    ELSE IF env.model = "fail" THEN Raised({"search", "model"})
    ELSE Returned(IF env.model = "value" THEN env.value ELSE PyNone, {"search", "model"})

find_glassdoor_url(state, env) ==
    IF state.fields.glassdoor_url # PyNone THEN Returned(state.fields.glassdoor_url, {})
    ELSE IF ~Truthy(state.company_name) THEN Returned(PyNone, {})
    ELSE IF env.search # "organic" THEN Returned(PyNone, {"search"})
    ELSE IF env.model = "fail" THEN Raised({"search", "model"})
    ELSE Returned(IF env.model = "value" THEN env.value ELSE PyNone, {"search", "model"})

scrape_glassdoor(state, env) ==
    IF state.fields.glassdoor_details # PyNone THEN Returned(state.fields.glassdoor_details, {})
    ELSE IF ~Truthy(state.fields.glassdoor_url) THEN Returned(PyNone, {})
    ELSE IF env.scrape = "error" THEN Raised({"scrape"})
    ELSE Returned(IF env.scrape = "data" THEN env.value ELSE PyNone, {"scrape"})

\* analyze_glassdoor without the test of its own field.
analyze_glassdoor_unchecked(state, env) ==
    IF ~Truthy(state.fields.glassdoor_details) THEN Returned(PyNone, {})
    ELSE IF env.model = "fail" THEN Raised({"model"})
    ELSE Returned(env.value, {"model"})

analyze_glassdoor(state, env) ==
    IF state.fields.glassdoor_analysis # PyNone
    THEN Returned(state.fields.glassdoor_analysis, {})
    ELSE IF ~Truthy(state.fields.glassdoor_details) THEN Returned(PyNone, {})
    ELSE IF env.model = "fail" THEN Raised({"model"})
    ELSE Returned(env.value, {"model"})

find_company_insights(state, env) ==
    IF state.fields.company_insights # PyNone THEN Returned(state.fields.company_insights, {})
    ELSE IF /\ ~Truthy(state.fields.company_linkedin_details)
            /\ ~Truthy(state.fields.glassdoor_analysis)
    THEN Returned(PyNone, {})
    ELSE IF env.model = "fail" THEN Raised({"search", "model"})
    ELSE Returned(env.value, {"search", "model"})

\* The node at position i of the graph.
Node(i, state, env) ==
    CASE i = 1 -> serp_search_google(state, env)
      [] i = 2 -> find_linkedin_url(state, env)
      [] i = 3 -> scrape_linkedin(state, env)
      [] i = 4 -> analyze_linkedin(state, env)
      [] i = 5 -> find_company_search_results(state, env)
      [] i = 6 -> find_company_linkedin_url(state, env)
      [] i = 7 -> scrape_company_linkedin(state, env)
      [] i = 8 -> analyze_company_linkedin(state, env)
      [] i = 9 -> score_lead(state, env)
      [] i = 10 -> find_glassdoor_url(state, env)
      [] i = 11 -> scrape_glassdoor(state, env)
      [] i = 12 -> analyze_glassdoor(state, env)
      [] i = 13 -> find_company_insights(state, env)

\* ------------------------------------------------------------ SpecScoring
\* One call of the score stage on a State that has no lead_score yet, for each
\* output of the scoring model.

NoFields == [f \in {StageFields[i] : i \in DOMAIN StageFields} |-> PyNone]

\* The State enrich_lead_task builds from the row it was sent.
TaskState(lead) ==
    [name |-> lead.name, company_name |-> lead.company_name, lead_details |-> lead,
     fields |-> lead.fields]

\* The values the model may give total_score, grade and priority (0 stands
\* for a key the model left out), and whether it adds a key that is no field.
ModelScores == {-5, 0, 39, 40, 54, 55, 69, 70, 84, 85, 100, 150}

ModelGrades == {"", "A", "B", "C", "D", "F", "E"}

ModelPriorities == {"", "High", "Medium", "Low", "Urgent"}

ScoreData(total, grade, priority, extra) ==
    (IF total = 0 THEN EmptyCtx ELSE ("total_score" :> total))
    @@ (IF grade = "" THEN EmptyCtx ELSE ("grade" :> grade))
    @@ (IF priority = "" THEN EmptyCtx ELSE ("priority" :> priority))
    @@ (IF extra THEN ("confidence" :> 1) ELSE EmptyCtx)

ScoreOutputs ==
    {[kind |-> k, data |-> EmptyCtx] : k \in {"error", "text", "array"}}
    \cup {[kind |-> "object", data |-> ScoreData(t, g, p, x)] :
            t \in ModelScores, g \in ModelGrades, p \in ModelPriorities, x \in BOOLEAN}

\* Every call of a node fails.
NoEnv ==
    [search |-> "none", scrape |-> "error", model |-> "fail",
     score |-> [kind |-> "error", data |-> EmptyCtx], value |-> PyNone]

InitScoring ==
    /\ phase = "idle"
    /\ tables = SeededDb
    /\ lastCreate = IdleCreate
    /\ IdleAdvisory
    /\ IdleApi
    /\ IdleEnrich
    /\ IdleUtil

ScoreLead ==
    /\ phase = "idle"
    /\ phase' = "done"
    /\ \E output \in ScoreOutputs, l \in tables.leads :
        scoring' = [asked |-> TRUE, output |-> output,
                    result |-> AIScoringEngine_score_lead(output),
                    stage |-> score_lead(TaskState(db_lead_dict(tables, l)),
                                         [NoEnv EXCEPT !.score = output])]
    /\ UNCHANGED <<utilVars, pipe, workers, leadVars, apiVars, advisorVars, workflowVars>>

NextScoring == ScoreLead

SpecScoring == InitScoring /\ [][NextScoring]_vars

\* ------------------------------------------------------------ scoring claims

\* The grade and the priority the scoring rubric gives a total score.
RubricGrade(total_score) ==
    IF total_score >= 85 THEN "A" ELSE IF total_score >= 70 THEN "B"
    ELSE IF total_score >= 55 THEN "C" ELSE IF total_score >= 40 THEN "D" ELSE "F"

RubricPriority(grade) ==
    IF grade \in {"A", "B"} THEN "High" ELSE IF grade = "C" THEN "Medium" ELSE "Low"

\* C13: for every model output accepted by AIScoringEngine.score_lead, the
\* returned total_score lies in [0, 100], grade is one of A, B, C, D, F and
\* agrees with total_score by the thresholds (>=85 A, 70-84 B, 55-69 C, 40-54 D,
\* <40 F), and priority is High for A/B, Medium for C, Low for D/F.
C13_ScoreWithinRubric ==
    (scoring.asked /\ Accepted(scoring.output)) =>
        LET score == scoring.result.score
        IN /\ score.total_score \in 0..100
           /\ score.grade \in {"A", "B", "C", "D", "F"}
           /\ score.grade = RubricGrade(score.total_score)
           /\ score.priority = RubricPriority(score.grade)

SubScores ==
    {"role_fit", "industry_alignment", "company_size", "geographic_fit",
     "psychographic_fit", "motivation_alignment", "micro_audience_bonus",
     "red_flags_penalty"}

\* C14: when the model call fails or its output cannot be parsed into a
\* ScoreBreakdown, score_lead does not raise: it returns a score with all
\* sub-scores 0, total_score 0, grade F, priority Low and recommended_campaign
\* "General Outreach", and the score stage returns it as lead_score without
\* raising.
C14_ScoringFailureIsNotFatal ==
    (scoring.asked /\ ~Accepted(scoring.output)) =>
        LET score == scoring.result.score
        IN /\ ~scoring.result.raised
           /\ \A k \in SubScores : score[k] = 0
           /\ score.total_score = 0
           /\ score.grade = "F"
           /\ score.priority = "Low"
           /\ score.recommended_campaign = "General Outreach"
           /\ ~scoring.stage.raised
           /\ scoring.stage.value = PyObj(scoring.result)

C14_Witness ==
    /\ scoring.asked
    /\ scoring.output.kind = "object"
    /\ "confidence" \in DOMAIN scoring.output.data
    /\ Get(scoring.output.data, "total_score", 0) = 85
    /\ scoring.result.score.total_score = 0
    /\ scoring.result.score.recommended_campaign = "General Outreach"
    /\ scoring.stage.value # PyNone

\* ------------------------------------------------------------ SpecStage
\* One node of the enrichment graph invoked on a State, for every node, for
\* States that hold its field or not, and for every outcome of its calls.

\* A value that is populated and falsy: an empty string, list or dict.
EmptyValue == PyStr(<<>>)

AllFields == {StageFields[i] : i \in DOMAIN StageFields}

\* The fields a lead's row holds before a run: none, one of them, all but one
\* of them or all of them, empty or not.
SeedFields ==
    {[f \in AllFields |-> IF f \in populated THEN v ELSE PyNone] :
        populated \in {{}, AllFields} \cup {{f} : f \in AllFields}
                      \cup {AllFields \ {f} : f \in AllFields},
        v \in {EmptyValue, PyNum(3)}}

\* What the outside may do to the calls of one node of run number run: every
\* call succeeds, or one kind of call goes wrong in one of its ways.
GoodEnv(run) ==
    [search |-> "organic", scrape |-> "data", model |-> "value",
     score |-> [kind |-> "object", data |-> ScoreData(85, "A", "High", FALSE)],
     value |-> PyNum(run)]

NodeEnvs(run) ==
    {GoodEnv(run)}
    \cup {[GoodEnv(run) EXCEPT !.search = x] : x \in {"none", "empty"}}
    \cup {[GoodEnv(run) EXCEPT !.scrape = x] :
            x \in {"error", "no_snapshot", "timeout", "empty"}}
    \cup {[GoodEnv(run) EXCEPT !.model = x] : x \in {"fail", "null"}}
    \cup {[GoodEnv(run) EXCEPT !.score = NoEnv.score]}

\* The run record: stage is the node to run next (Len(StageFields) + 1 at END),
\* node is the last node that ran (0 before the first), was is the value it
\* found in its field, made the calls it made,
\* called whether any node of this run made a call, previous the fields and
\* the called flag the run before ended with.
GraphRun(stage, run, state, previous) ==
    [stage |-> stage, run |-> run, state |-> state, raised |-> FALSE, node |-> 0,
     was |-> PyNone, made |-> {}, called |-> FALSE, previous |-> previous]

NoRun == [fields |-> NoFields, called |-> FALSE]

\* The State of the task sent for the seeded lead l whose row holds fields.
SeedState(l, fields) == TaskState([db_lead_dict(SeededDb, l) EXCEPT !.fields = fields])

InitStage ==
    /\ phase = "idle"
    /\ tables = SeededDb
    /\ lastCreate = IdleCreate
    /\ IdleAdvisory
    /\ IdleApi
    /\ scoring = [asked |-> FALSE]
    /\ workers = <<>>
    /\ IdleUtil
    /\ \E i \in DOMAIN StageFields, l \in LeadsWithId(SeededDb, 2), fields \in SeedFields :
        pipe = GraphRun(i, 1, SeedState(l, fields), NoRun)

\* The graph after the node at pipe.stage returned out.
AfterNode(out) ==
    [pipe EXCEPT !.stage = IF out.raised THEN @ ELSE @ + 1,
                 !.raised = out.raised,
                 !.node = pipe.stage,
                 !.state.fields[StageFields[pipe.stage]] = IF out.raised THEN @ ELSE out.value,
                 !.was = pipe.state.fields[StageFields[pipe.stage]],
                 !.made = out.made,
                 !.called = @ \/ out.made # {}]

InvokeNode ==
    /\ phase = "idle"
    /\ phase' = "done"
    /\ \E env \in NodeEnvs(pipe.run) :
        pipe' = AfterNode(Node(pipe.stage, pipe.state, env)) @@ [env |-> env]
    /\ UNCHANGED <<utilVars, scoring, workers, leadVars, apiVars, advisorVars, workflowVars>>

NextStage == InvokeNode

SpecStage == InitStage /\ [][NextStage]_vars

\* ------------------------------------------------------------ SpecGraph
\* graph.invoke on the State of a lead whose row holds no enrichment yet: the
\* thirteen nodes one after the other, each against an environment of its own,
\* and then graph.invoke again on the State the first run ended with.

InitGraph ==
    /\ phase = "idle"
    /\ tables = SeededDb
    /\ lastCreate = IdleCreate
    /\ IdleAdvisory
    /\ IdleApi
    /\ scoring = [asked |-> FALSE]
    /\ workers = <<>>
    /\ IdleUtil
    /\ \E l \in LeadsWithId(SeededDb, 2) : pipe = GraphRun(1, 1, SeedState(l, NoFields), NoRun)

RunNode ==
    /\ pipe.stage \in DOMAIN StageFields
    /\ ~pipe.raised
    /\ \E env \in NodeEnvs(pipe.run) : pipe' = AfterNode(Node(pipe.stage, pipe.state, env))
    /\ UNCHANGED <<utilVars, phase, scoring, workers, leadVars, apiVars, advisorVars, workflowVars>>

RunAgain ==
    /\ pipe.stage = Len(StageFields) + 1
    /\ pipe.run = 1
    /\ pipe' = GraphRun(1, 2, pipe.state, [fields |-> pipe.state.fields, called |-> pipe.called])
    /\ UNCHANGED <<utilVars, phase, scoring, workers, leadVars, apiVars, advisorVars, workflowVars>>

NextGraph == RunNode \/ RunAgain

SpecGraph == InitGraph /\ [][NextGraph]_vars

\* ------------------------------------------------------------ graph claims

C23_NoOrganicResultsNoModelCall ==
    (/\ phase = "done"
     /\ StageFields[pipe.node] = "glassdoor_url"
     /\ "search" \in pipe.made
     /\ pipe.env.search \in {"none", "empty"}) =>
        /\ ~pipe.raised
        /\ pipe.state.fields.glassdoor_url = PyNone
        /\ "model" \notin pipe.made

C23_Witness ==
    /\ phase = "done"
    /\ StageFields[pipe.node] = "glassdoor_url"
    /\ pipe.was = PyNone
    /\ pipe.made = {"search"}
    /\ pipe.env.search = "empty"
    /\ pipe.env.model = "value"
    /\ pipe.state.fields.glassdoor_url = PyNone

\* The State the first run ended with holds every one of the thirteen fields.
FirstRunFilledAll == \A f \in AllFields : pipe.previous.fields[f] # PyNone

\* C16 as stated: running the pipeline again on the state a previous complete
\* run produced makes no search, scrape or model call and yields the same state.
C16_RerunMakesNoCall ==
    (pipe.run = 2) =>
        /\ ~pipe.called
        /\ pipe.state.fields = pipe.previous.fields

\* C16 amended: running the pipeline again on the state a previous complete run
\* produced makes no search, scrape or model call and yields the same state
\* when that state holds every stage's output (none of them None).
C16_RerunOfFilledStateMakesNoCall ==
    (pipe.run = 2 /\ FirstRunFilledAll) =>
        /\ ~pipe.called
        /\ ~pipe.raised
        /\ pipe.state.fields = pipe.previous.fields

C16_Witness ==
    /\ pipe.run = 2
    /\ pipe.stage = Len(StageFields) + 1
    /\ FirstRunFilledAll
    /\ pipe.previous.called
    /\ ~pipe.called

\* ------------------------------------------------------------ enrichment task
\* enrich_lead_task: the graph run and the write-back of its final State.

\* graph.invoke from node i on, every node against the same environment: the
\* State at END, or the exception of the first node that raises.
RECURSIVE RunFrom(_, _, _)
RunFrom(i, state, env) ==
    IF i > Len(StageFields) THEN [raised |-> FALSE, state |-> state]
    ELSE IF Node(i, state, env).raised THEN [raised |-> TRUE, state |-> state]
    ELSE RunFrom(i + 1, [state EXCEPT !.fields[StageFields[i]] = Node(i, state, env).value],
                 env)

\* UPDATE ... SET: the values that are not None, removed from the statement
\* when they are, replace the row's columns.
SetColumns(row, values) ==
    [c \in DOMAIN row \cup {k \in DOMAIN values : values[k] # PyNone} |->
        IF c \in DOMAIN values /\ values[c] # PyNone THEN values[c] ELSE row[c]]

\* The lead service's enrichment write-back: the lead's columns of the final
\* State, written through the session and not committed.
update_lead_with_enrichment(db, lead_id, final_state) ==
    [db EXCEPT !.leads =
        {IF l.id = lead_id
         THEN SetColumns(l, [f \in LeadColumns |-> final_state.fields[f]]) ELSE l : l \in @}]

\* update_company_with_enrichment with the None values left in the statement.
update_company_with_enrichment_writes_none(db, company_id, final_state) ==
    [db EXCEPT !.companies =
        {IF c.id = company_id
         THEN [f \in AllFields \ LeadColumns |-> final_state.fields[f]] @@ c ELSE c : c \in @}]

\* update_company_with_enrichment: the company's columns, under the names of
\* the State fields; website (company_search_results or {}) is always written.
update_company_with_enrichment(db, company_id, final_state) ==
    [db EXCEPT !.companies =
        {IF c.id = company_id
         THEN SetColumns(c, [f \in AllFields \ LeadColumns |-> final_state.fields[f]]
                            @@ [website |-> IF Truthy(final_state.fields.company_search_results)
                                            THEN final_state.fields.company_search_results
                                            ELSE PyStr(<<"{", "}">>)])
         ELSE c : c \in @}]

update_enrichment_job(db, lead_id, status) ==
    [db EXCEPT !.enrichment_jobs =
        {IF j.lead_id = lead_id THEN [j EXCEPT !.status = status] ELSE j : j \in @}]

\* The first two statements of the write-back, to the commit inside
\* update_company_with_enrichment, which commits the lead's update with its
\* own. A statement the database rejects (fault) is rolled back with all the
\* session holds, and the task's except clause logs it.
write_lead_and_company(db, final_state, fault) ==
    IF fault \in {"lead_update", "company_update"} THEN [db |-> db, raised |-> TRUE]
    ELSE [db |-> update_company_with_enrichment(
                     update_lead_with_enrichment(db, final_state.lead_details.lead_id,
                                                 final_state),
                     final_state.lead_details.company_id, final_state),
          raised |-> FALSE]

\* The last statement of the write-back, with the commit inside
\* update_enrichment_job.
write_job(db, final_state, fault) ==
    IF fault = "job_update" THEN [db |-> db, raised |-> TRUE]
    ELSE [db |-> update_enrichment_job(db, final_state.lead_details.lead_id, "completed"),
          raised |-> FALSE]

\* ------------------------------------------------------------ SpecTask
\* Enrich requests for the seeded leads and the tasks they dispatch, run by
\* workers that interleave at their commits. Every request is issued before
\* any task has finished.

\* The largest number of enrich requests.
MaxRequests == 2

RequiredFields == {"id", "name", "email", "designation", "company"}

\* A task execution: pc is what it does next, state the State it holds, wrote
\* the rank of its lead-and-company commit among all such commits (0: none),
\* job whether its job update was committed, status what the result store
\* says of it.
Worker(task_id, pc, state, status) ==
    [task_id |-> task_id, pc |-> pc, state |-> state, wrote |-> 0, job |-> FALSE,
     status |-> status]

InitTask ==
    /\ phase = "idle"
    /\ tables = SeededDb
    /\ lastCreate = IdleCreate
    /\ IdleAdvisory
    /\ IdleApi
    /\ IdleEnrich
    /\ IdleUtil

\* The requests answered so far.
Requested == Cardinality({db \in sessions : db.by = "enrich"})

\* A request for a seeded lead, with every required field or without company.
RequestEnrich ==
    /\ Requested < MaxRequests
    /\ \A k \in DOMAIN workers : workers[k].pc # "done"
    /\ \E l \in tables.leads,
          keys \in {RequiredFields, RequiredFields \ {"company"}} :
        LET leads_data == [tag |-> "dict",
                           value |-> [k \in keys |-> IF k = "id" THEN PyNum(l.id) ELSE Ident(k)]]
            fault == [kind |-> "none", at |-> 0]
            response == enrich_leads(leads_data, tables, fault, Len(queue) + 1)
        IN /\ httpReq' = [endpoint |-> "enrich", body |-> leads_data, fault |-> fault]
           /\ httpResp' = [k \in DOMAIN response \ {"sent"} |-> response[k]]
           /\ queue' = queue \o response.sent
           /\ sessions' = sessions \cup {Depends_get_db("enrich", Requested + 1,
                                                          response.status)}
    /\ UNCHANGED <<auth, trace, poll, phase, contOut, workers, scoring, pipe, leadVars,
                   advisorVars, workflowVars>>

\* A worker takes the next message and runs the graph to its end.
StartTask ==
    /\ Len(workers) < Len(queue)
    /\ \E env \in NodeEnvs(Len(workers) + 1) :
        LET message == queue[Len(workers) + 1]
            run == RunFrom(1, TaskState(message.lead_data), env)
        IN workers' = Append(workers,
                             IF run.raised
                             THEN Worker(message.task_id, "done", run.state, "FAILURE")
                             ELSE Worker(message.task_id, "write_lead_company", run.state,
                                         "STARTED"))
    /\ UNCHANGED <<utilVars, phase, httpReq, httpResp, queue, contOut, scoring, pipe, leadVars,
                   advisorVars, workflowVars>>

\* db = next(get_db()): the generator, which nothing refers to, is collected
\* while suspended at its yield; the first statement begins the session anew.
\* A failed statement ends the task's try block: rollback, and close in its
\* finally clause.
WriteLeadAndCompany ==
    /\ \E k \in DOMAIN workers, fault \in {"none", "lead_update", "company_update"} :
        LET out == write_lead_and_company(tables, workers[k].state, fault)
            rank == Cardinality({j \in DOMAIN workers : workers[j].wrote > 0}) + 1
            db == Session_execute(get_db_exit(get_db("enrich_lead_task", workers[k].task_id),
                                              FALSE))
        IN /\ workers[k].pc = "write_lead_company"
           /\ tables' = out.db
           /\ sessions' = sessions \cup {IF out.raised THEN Session_close(db) ELSE db}
           /\ workers' = [workers EXCEPT ![k] =
                            IF out.raised THEN [@ EXCEPT !.pc = "done", !.status = "SUCCESS"]
                            ELSE [@ EXCEPT !.pc = "write_job", !.wrote = rank]]
    /\ UNCHANGED <<auth, trace, poll, phase, lastCreate, apiVars, scoring, pipe, advisorVars,
                   workflowVars>>

\* The job update, the commits after it, and the task's return of final_state.
WriteJob ==
    /\ \E k \in DOMAIN workers, fault \in {"none", "job_update"} :
        LET out == write_job(tables, workers[k].state, fault)
            db == CHOOSE x \in sessions :
                      x.by = "enrich_lead_task" /\ x.n = workers[k].task_id
        IN /\ workers[k].pc = "write_job"
           /\ tables' = out.db
           /\ sessions' = (sessions \ {db}) \cup {Session_close(db)}
           /\ workers' = [workers EXCEPT ![k] =
                            [@ EXCEPT !.pc = "done", !.status = "SUCCESS", !.job = ~out.raised]]
    /\ UNCHANGED <<auth, trace, poll, phase, lastCreate, apiVars, scoring, pipe, advisorVars,
                   workflowVars>>

NextTask == RequestEnrich \/ StartTask \/ WriteLeadAndCompany \/ WriteJob

SpecTask == InitTask /\ [][NextTask]_vars

\* ------------------------------------------------------------ enrichment task claims

\* Every dispatched task has run to its end.
TasksFinished ==
    /\ queue # <<>>
    /\ Len(workers) = Len(queue)
    /\ \A k \in DOMAIN workers : workers[k].pc = "done"

\* C17: after a task ends, its lead update, company update and job status
\* update are all persisted or none of them is.
C17_WriteBackIsOneUnit ==
    \A k \in DOMAIN workers :
        workers[k].pc = "done" => (workers[k].wrote > 0 <=> workers[k].job)

JobsOf(lead_id) == {j \in tables.enrichment_jobs : j.lead_id = lead_id}

\* C18: a task recorded as succeeded has left its lead's enrichment job
\* "completed"; a failed write-back is not swallowed.
C18_SuccessMeansJobCompleted ==
    \A k \in DOMAIN workers :
        workers[k].status = "SUCCESS" =>
            \A j \in JobsOf(workers[k].state.lead_details.lead_id) : j.status = "completed"

\* The tasks whose lead-and-company commit wrote the row: a lead's row when
\* key is "lead_id", a company's when it is "company_id".
Committers(key, id) ==
    {k \in DOMAIN workers : workers[k].wrote > 0 /\ workers[k].state.lead_details[key] = id}

LastWriter(S) == CHOOSE k \in S : \A j \in S : workers[j].wrote <= workers[k].wrote

\* No request that names the required fields was rejected and every one of
\* them dispatched its own task.
EveryRequestDispatched ==
    /\ (httpReq.endpoint = "enrich" /\ RequiredFields \subseteq DOMAIN httpReq.body.value) =>
           /\ httpResp.status = 202
           /\ httpResp.results[1].status = "pending"
           /\ httpResp.results[1].task_id = Len(queue)
    /\ \A i \in DOMAIN queue : queue[i].task_id = i

\* The row holds, in each column of cols, what the last committer computed.
HoldsLastRun(row, cols, S) ==
    S # {} => \A f \in cols : Column(row, f) = workers[LastWriter(S)].state.fields[f]

\* The row holds, in each column of cols, what the last committer that
\* computed a value for the column computed, and NULL when no one did.
HoldsLastValue(row, cols, S) ==
    \A f \in cols :
        LET computed == {k \in S : workers[k].state.fields[f] # PyNone}
        IN Column(row, f) = IF computed = {} THEN PyNone
                            ELSE workers[LastWriter(computed)].state.fields[f]

continue_workflow(request, cls, llm) ==
    IF request.context = EmptyCtx
    THEN [response |-> WorkflowResponse(400, InitialState(<<>>, EmptyCtx, <<>>),
                                        request.user_query),
          requests |-> <<>>, route |-> IdleRoute, call |-> IdleCall]
    ELSE [Respond(execute(request.user_query, request.context, request.original_query,
                          cls, llm),
                  request.user_query)
          EXCEPT !.response = WorkflowResponse(500, InitialState(<<>>, EmptyCtx, <<>>),
                                               request.user_query)]

\* The bodies posted: one utterance, with every context of Requests.
ContinueRequests == {r \in Requests : r.user_query = <<"h", "i">> /\ r.original_query = <<>>}

InitContinue ==
    /\ phase = "pending"
    /\ req \in ContinueRequests
    /\ wfOut = IdleResponse
    /\ classifyLog = <<>>
    /\ turn = 1
    /\ tables = EmptyDb
    /\ lastCreate = IdleCreate
    /\ call = IdleCall
    /\ agentOut = IdleOut
    /\ routeOut = IdleRoute
    /\ modelLog = <<>>
    /\ IdleApi
    /\ IdleEnrich
    /\ IdleUtil

PostBoth ==
    /\ phase = "pending"
    /\ \E cls \in ClsAsked(req, ClsOutcomes) : \E llm \in LLMAsked(req, cls, WorkflowLLMOutcomes) :
        LET continued == continue_workflow(req, cls, llm)
        IN /\ TurnDone(execute_workflow(req, cls, llm), llm)
           /\ contOut' = [status |-> continued.response.status,
                          response |-> continued.response,
                          requests |-> continued.requests,
                          modelCalls |-> continued.route.modelCalls]
    /\ phase' = "done"
    /\ UNCHANGED <<utilVars, req, turn, leadVars, httpReq, httpResp, queue, enrichVars>>

NextContinue == PostBoth

SpecContinue == InitContinue /\ [][NextContinue]_vars

\* C20: with a non-empty context /workflow/continue answers what
\* /workflow/execute answers to the same body; with a missing or empty
\* context it answers 400 and the orchestrator does not run.
C20_ContinueAnswersAsExecute ==
    contOut.status # 0 =>
        IF req.context # EmptyCtx THEN contOut.response = wfOut
        ELSE contOut.status = 400 /\ contOut.requests = <<>> /\ contOut.modelCalls = 0

\* ------------------------------------------------------------ SpecClassify
\* One POST /chat_bot/classify-problem: any message, any output of the
\* classification model.

PROBLEM_TYPES ==
    {"Attrition", "Engagement", "Performance", "Culture", "Leadership Readiness",
     "Profitability/Execution", "DEI/Fairness"}

\* The messages posted: utterances, a blank one and an empty one.
ClassifyMessages == WorkflowQueries \cup {<<>>}

\* What the structured-output call yields: any string as problem_type (the
\* response model constrains it to str), any float as confidence, or an error.
ModelProblemTypes == PROBLEM_TYPES \cup {"Other", "Unknown", "other", "Compensation"}

ModelConfidences == {0, 3, 5, 9, 10}

ClassifyOutcomes ==
    {ClsFailure} \cup
    [transport : {"ok"}, ok : {TRUE}, problem_type : ModelProblemTypes,
     confidence : ModelConfidences]

InitClassify ==
    /\ phase = "pending"
    /\ httpReq \in {[endpoint |-> "classify", message |-> m] : m \in ClassifyMessages}
    /\ httpResp = [status |-> 0]
    /\ queue = <<>>
    /\ contOut = [status |-> 0]
    /\ tables = EmptyDb
    /\ lastCreate = IdleCreate
    /\ IdleAdvisory
    /\ IdleEnrich
    /\ IdleUtil

\* The model is called only for a message that is not blank.
PostClassify ==
    /\ phase = "pending"
    /\ phase' = "done"
    /\ \E cls \in ClassifyOutcomes :
        /\ httpResp' = classify_problem_endpoint(httpReq.message, cls)
        /\ modelLog' = IF Strip(httpReq.message) = <<>> THEN <<>> ELSE <<cls>>
    /\ UNCHANGED <<utilVars, enrichVars, leadVars, workflowVars, call, agentOut, routeOut,
                   httpReq, queue, contOut>>

NextClassify == PostClassify

SpecClassify == InitClassify /\ [][NextClassify]_vars

\* C21: every answer of POST /chat_bot/classify-problem names one of the
\* seven categories or "Other" with the advisor mapped to it, and an
\* "Unknown" or "Other" of the model is answered as "Other", 0.3,
\* "DefaultAgent" whatever confidence the model reported.
C21_ClassificationWithinCategories ==
    httpResp.status = 200 =>
        /\ \E t \in PROBLEM_TYPES \cup {"Other"} :
            /\ httpResp.problem_type = Ident(t)
            /\ httpResp.suggested_agent = Ident(agent_map[t])
        /\ modelLog[1].problem_type \in {"Unknown", "Other"} =>
            /\ httpResp.problem_type = Ident("Other")
            /\ httpResp.confidence = PyNum(3)
            /\ httpResp.suggested_agent = Ident("DefaultAgent")

\* ------------------------------------------------------------ access tokens
\* Times are counted in half seconds since the epoch, so that a clock reading
\* may fall between two whole seconds.

SECRET_KEY == "JWT_SECRET"

ACCESS_TOKEN_EXPIRE_MINUTES == 1440

\* timedelta(minutes=m), and a clock reading as the whole seconds the token
\* library makes of it (timegm of the time tuple drops the fraction).
Minutes(m) == m * 60 * 2

Seconds(t) == t \div 2

\* The signature of a payload under a key.
Sign(payload, key) == [of |-> payload, by |-> key]

\* jwt.encode: the claims, a datetime exp turned into whole seconds, signed.
jwt_encode(claims, key) ==
    LET payload == [claims EXCEPT !.exp = Seconds(@)]
    IN [segments |-> 3, payload |-> payload, signature |-> Sign(payload, key)]

\* jwt.decode at clock reading now: a JWTError for a token that does not
\* parse, whose signature does not verify or whose exp is before now.
jwt_decode_ignores_exp(token, key, now) ==
    IF token.segments # 3 \/ token.signature # Sign(token.payload, key)
    THEN [error |-> "JWTError", payload |-> EmptyCtx]
    ELSE [error |-> "", payload |-> token.payload]

jwt_decode(token, key, now) ==
    IF token.segments # 3 THEN [error |-> "JWTError", payload |-> EmptyCtx]
    ELSE IF token.signature # Sign(token.payload, key)
    THEN [error |-> "JWTError", payload |-> EmptyCtx]
    ELSE IF token.payload.exp < Seconds(now)
    THEN [error |-> "JWTError", payload |-> EmptyCtx]
    ELSE [error |-> "", payload |-> token.payload]

\* What a token function did: returned value, or raised an exception that
\* carries an HTTP status (0 when it is no HTTPException).
TokenReturn(value) == [raised |-> "", status |-> 0, value |-> value]

TokenRaise(exception, status_code) ==
    [raised |-> exception, status |-> status_code, value |-> EmptyCtx]

\* endpoints/auth.py. lifetime is expires_delta in minutes; a timedelta of
\* zero is falsy, as None (here -1) is, and gives the configured lifetime.
create_access_token(sub, lifetime, now) ==
    jwt_encode([sub |-> sub,
                exp |-> IF lifetime # -1 /\ lifetime # 0 THEN now + Minutes(lifetime)
                        ELSE now + Minutes(ACCESS_TOKEN_EXPIRE_MINUTES)],
               SECRET_KEY)

decode_access_token(token, now) ==
    LET decoded == jwt_decode(token, SECRET_KEY, now)
    IN IF decoded.error # "" THEN TokenRaise("HTTPException", 401)
       ELSE TokenReturn(decoded.payload)

get_current_user_id(token, now) ==
    LET payload == decode_access_token(token, now)
    IN IF payload.raised # "" THEN payload
       ELSE IF payload.value.sub = "" THEN TokenRaise("HTTPException", 401)
       ELSE TokenReturn(payload.value.sub)

\* core/security.py. lifetime is expires_minutes, None (here -1) for the
\* configured lifetime; the decoder re-raises the library's error.
security_create_access_token(subject, lifetime, now) ==
    jwt_encode([sub |-> subject,
                exp |-> now + Minutes(IF lifetime # -1 THEN lifetime
                                      ELSE ACCESS_TOKEN_EXPIRE_MINUTES)],
               SECRET_KEY)

security_decode_access_token(token, now) ==
    LET decoded == jwt_decode(token, SECRET_KEY, now)
    IN IF decoded.error # "" THEN TokenRaise("JWTError", 0)
       ELSE TokenReturn(decoded.payload)

\* ------------------------------------------------------------ SpecTokens
\* A token is issued by one of the two modules and a token is then presented
\* to that module's decoder: the issued one, one made by hand, or a damaged one.

TokenModules == {"endpoints.auth", "core.security"}

Subjects == {"u1", "u2", ""}

\* None, zero, one minute, the configured lifetime.
Lifetimes == {-1, 0, 1, ACCESS_TOKEN_EXPIRE_MINUTES}

\* The clock readings at which a token is issued.
IssueTimes == {2000, 2001}

\* How long after the issue the token is presented, in half seconds.
Delays ==
    {0, 1, Minutes(1) - 1, Minutes(1), Minutes(1) + 1, Minutes(1) + 2,
     Minutes(ACCESS_TOKEN_EXPIRE_MINUTES), Minutes(ACCESS_TOKEN_EXPIRE_MINUTES) + 2}

\* The token presented, given the issued one: itself; one signed by hand with
\* the right key and an expiry a second in the past; one signed with another
\* key; one whose subject was changed under the old signature; one that does
\* not parse.
Presented(kind, token, now) ==
    CASE kind = "issued" -> token
      [] kind = "hand_made_expired" ->
            [token EXCEPT !.payload.exp = Seconds(now) - 1,
                          !.signature = Sign([token.payload EXCEPT !.exp = Seconds(now) - 1],
                                             SECRET_KEY)]
      [] kind = "other_key" -> [token EXCEPT !.signature = Sign(token.payload, "other")]
      [] kind = "tampered" -> [token EXCEPT !.payload.sub = "admin"]
      [] OTHER -> [token EXCEPT !.segments = 2]

TokenKinds == {"issued", "hand_made_expired", "other_key", "tampered", "malformed"}

InitTokens ==
    /\ phase = "idle"
    /\ tables = EmptyDb
    /\ lastCreate = IdleCreate
    /\ IdleAdvisory
    /\ IdleApi
    /\ IdleEnrich
    /\ IdleUtil

IssueToken ==
    /\ auth.op = "none"
    /\ \E module \in TokenModules, sub \in Subjects, lifetime \in Lifetimes, now \in IssueTimes :
        auth' = [op |-> "issued", module |-> module, sub |-> sub, lifetime |-> lifetime,
                 at |-> now,
                 token |-> IF module = "endpoints.auth"
                           THEN create_access_token(sub, lifetime, now)
                           ELSE security_create_access_token(sub, lifetime, now)]
    /\ UNCHANGED <<phase, sessions, trace, poll, enrichVars, apiVars, leadVars, workflowVars,
                   advisorVars>>

DecodeToken ==
    /\ auth.op = "issued"
    /\ \E kind \in TokenKinds, delay \in Delays :
        LET now == auth.at + delay
            token == Presented(kind, auth.token, now)
        IN auth' = [op |-> "decoded", module |-> auth.module, sub |-> auth.sub,
                    issued |-> auth.token, kind |-> kind, token |-> token, at |-> now,
                    result |-> IF auth.module = "endpoints.auth"
                               THEN decode_access_token(token, now)
                               ELSE security_decode_access_token(token, now),
                    user_id |-> IF auth.module = "endpoints.auth"
                                THEN get_current_user_id(token, now)
                                ELSE TokenReturn(EmptyCtx)]
    /\ UNCHANGED <<phase, sessions, trace, poll, enrichVars, apiVars, leadVars, workflowVars,
                   advisorVars>>

NextTokens == IssueToken \/ DecodeToken

SpecTokens == InitTokens /\ [][NextTokens]_vars

\* ------------------------------------------------------------ token claims

\* The presented token is the issued one and its expiry has not passed.
IssuedAndInTime ==
    /\ auth.op = "decoded"
    /\ auth.kind = "issued"
    /\ Seconds(auth.at) <= auth.token.payload.exp

\* The presented token has expired, was not signed with the secret, or does
\* not parse.
MustBeRejected ==
    /\ auth.op = "decoded"
    /\ \/ auth.token.payload.exp < Seconds(auth.at)
       \/ auth.kind \in {"other_key", "tampered", "malformed"}

OwnerEnded(db) ==
    db.by = "enrich_lead_task" =>
        \E k \in DOMAIN workers : workers[k].task_id = db.n /\ workers[k].pc = "done"

\* C24: every session get_db handed out, to an HTTP handler or to the
\* enrichment task, is closed once its request or task has ended, whether the
\* work succeeded or raised.
C24_SessionsClosedOnEveryPath == \A db \in sessions : OwnerEnded(db) => db.state = "closed"

\* A request was answered 400 and a task's write-back failed: the session of
\* the request and the session of the task are closed.
C24_Witness ==
    /\ httpResp.status = 400
    /\ \E db \in sessions : db.by = "enrich" /\ db.n > 1 /\ db.state = "closed"
    /\ \E k \in DOMAIN workers :
        /\ workers[k].pc = "done"
        /\ workers[k].status = "SUCCESS"
        /\ workers[k].wrote = 0
        /\ [by |-> "enrich_lead_task", n |-> workers[k].task_id, state |-> "closed"] \in sessions

\* ------------------------------------------------------------ SpecConversationGraph
\* One execution of the compiled conversation graph, a node at a time: trace
\* holds the node to run next, the nodes that ran, the WorkflowState, whether
\* a node raised, and what the classification requests sent were answered.

GraphOrder ==
    <<"input", "problem_classifier", "agent_manager", "context_collector",
      "knowledge_retrieval", "llm_response", "feedback">>

\* The edges of _build_graph.
Edge(node, state) ==
    CASE node = "input" -> "problem_classifier"
      [] node = "problem_classifier" -> "agent_manager"
      [] node = "agent_manager" -> "context_collector"
      [] node = "context_collector" ->
            (CASE should_continue_or_clarify(state) = "continue" -> "knowledge_retrieval"
               [] should_continue_or_clarify(state) = "clarify" -> "END"
               [] OTHER -> "feedback")
      [] node = "knowledge_retrieval" -> "llm_response"
      [] node = "llm_response" -> "feedback"
      [] OTHER -> "END"

GraphTrace(node, ran, state, raised, answers) ==
    [node |-> node, ran |-> ran, state |-> state, raised |-> raised, answers |-> answers]

\* The node under way returned state, or raised, which ends the run.
NodeDone(state, raised, answers) ==
    /\ trace' = GraphTrace(IF raised THEN "END" ELSE Edge(trace.node, state),
                           Append(trace.ran, trace.node), state, raised,
                           trace.answers \o answers)
    /\ UNCHANGED <<phase, req, wfOut, turn, call, agentOut, sessions, auth, poll, leadVars,
                   apiVars, enrichVars>>

InitConversationGraph ==
    /\ phase = "pending"
    /\ req \in ContinueRequests
    /\ trace = GraphTrace("input", <<>>,
                          InitialState(req.user_query, req.context, req.original_query), FALSE,
                          <<>>)
    /\ wfOut = IdleResponse
    /\ classifyLog = <<>>
    /\ turn = 1
    /\ tables = EmptyDb
    /\ lastCreate = IdleCreate
    /\ call = IdleCall
    /\ agentOut = IdleOut
    /\ routeOut = IdleRoute
    /\ modelLog = <<>>
    /\ sessions = {}
    /\ auth = [op |-> "none"]
    /\ poll = [fn |-> "none"]
    /\ IdleApi
    /\ IdleEnrich

InputNode ==
    /\ trace.node = "input"
    /\ NodeDone(input_node(trace.state), FALSE, <<>>)
    /\ UNCHANGED <<classifyLog, routeOut, modelLog>>

ProblemClassifierNode ==
    /\ trace.node = "problem_classifier"
    /\ \E cls \in ClsOutcomes :
        LET classified == problem_classifier_node(trace.state, cls)
        IN /\ NodeDone(classified.state, classified.raised,
                       IF classified.requests = <<>> THEN <<>> ELSE <<cls>>)
           /\ classifyLog' = classified.requests
    /\ UNCHANGED <<routeOut, modelLog>>

AgentManagerNode ==
    /\ trace.node = "agent_manager"
    /\ \E llm \in WorkflowLLMOutcomes :
        LET managed == agent_manager_node(trace.state, llm)
        IN /\ NodeDone(managed.state, FALSE, <<>>)
           /\ routeOut' = managed.route
           /\ modelLog' = IF managed.route.modelCalls > 0 THEN <<llm>> ELSE <<>>
    /\ UNCHANGED classifyLog

ContextCollectorNode ==
    /\ trace.node = "context_collector"
    /\ NodeDone(context_collector_node(trace.state), FALSE, <<>>)
    /\ UNCHANGED <<classifyLog, routeOut, modelLog>>

KnowledgeRetrievalNode ==
    /\ trace.node = "knowledge_retrieval"
    /\ NodeDone(knowledge_retrieval_node(trace.state), FALSE, <<>>)
    /\ UNCHANGED <<classifyLog, routeOut, modelLog>>

LlmResponseNode ==
    /\ trace.node = "llm_response"
    /\ NodeDone(llm_response_node(trace.state), FALSE, <<>>)
    /\ UNCHANGED <<classifyLog, routeOut, modelLog>>

FeedbackNode ==
    /\ trace.node = "feedback"
    /\ NodeDone(feedback_node(trace.state), FALSE, <<>>)
    /\ UNCHANGED <<classifyLog, routeOut, modelLog>>

NextConversationGraph ==
    \/ InputNode
    \/ ProblemClassifierNode
    \/ AgentManagerNode
    \/ ContextCollectorNode
    \/ KnowledgeRetrievalNode
    \/ LlmResponseNode
    \/ FeedbackNode

SpecConversationGraph == InitConversationGraph /\ [][NextConversationGraph]_vars

\* ------------------------------------------------------------ conversation graph claims

\* C25: the nodes of one execution run in the order input, classify, route,
\* collect-context, knowledge-retrieval, finalize, feedback, each at most
\* once; a run in which requires_clarification is true after the route step
\* ends after collect-context with knowledge_insights and user_feedback
\* empty, and any other run that no node's exception ended runs all seven.
C25_NodesInOrder ==
    /\ trace.ran = SubSeq(GraphOrder, 1, Len(trace.ran))
    /\ (Len(trace.ran) >= 4 /\ trace.state.requires_clarification) =>
        /\ trace.node = "END"
        /\ Len(trace.ran) = 4
        /\ ~trace.state.knowledge_insights
        /\ ~trace.state.user_feedback
    /\ (trace.node = "END" /\ ~trace.raised /\ ~trace.state.requires_clarification) =>
        /\ trace.ran = GraphOrder
        /\ trace.state.knowledge_insights
        /\ trace.state.user_feedback

\* A run that ended at the clarify edge.
C25_Witness ==
    /\ trace.node = "END"
    /\ trace.ran = SubSeq(GraphOrder, 1, 4)
    /\ trace.state.requires_clarification
    /\ trace.state.next_questions # <<>>

\* The classification request of this run failed or was answered with a
\* status other than 200.
ClassificationFailed ==
    /\ trace.answers # <<>>
    /\ (trace.answers[1].transport # "ok" \/ ~trace.answers[1].ok)

ClassifiedAsOther ==
    /\ trace.state.problem_type = Ident("Other")
    /\ trace.state.suggested_agent = Ident("DefaultAgent")
    /\ trace.state.confidence = PyNum(3)

\* C28: when the classification request fails or answers with a non-200
\* status, the classify step sets Other / DefaultAgent / 0.3, the turn is
\* routed to the Default advisor, and the execution returns a response.
C28_FailedClassificationGoesToDefault ==
    ClassificationFailed =>
        /\ ~trace.raised
        /\ Len(trace.ran) = 2 => ClassifiedAsOther
        /\ Len(trace.ran) >= 3 => routeOut.agent = "DefaultAgent"
        /\ trace.node = "END" =>
            Respond([raised |-> FALSE, state |-> trace.state, requests |-> classifyLog,
                     route |-> routeOut, call |-> call], req.user_query).response.status = 200

\* The classification request met a transport error and the run ended with
\* the Default advisor's reply.
C28_Witness ==
    /\ trace.answers # <<>>
    /\ trace.answers[1].transport = "error"
    /\ trace.node = "END"
    /\ routeOut.agent = "DefaultAgent"
    /\ trace.state.problem_type = Ident("Other")
    /\ trace.state.confidence = PyNum(3)

\* ------------------------------------------------------------ response claims

\* The advisor's reply was taken as a final action plan: a reply of more than
\* 50 characters from a specialized advisor that asks no clarification and
\* either carries a plan marker (and is no thank-you or general reply) or
\* comes with three or more context keys.
TreatedAsFinalPlan ==
    /\ phase = "done"
    /\ routeOut.agent # ""
    /\ ~routeOut.raised
    /\ ~routeOut.resp.requires_clarification
    /\ routeOut.resp.action_plan.len > 50
    /\ IsSpecialized(call.suggested_agent)
    /\ \/ /\ routeOut.resp.action_plan.marker
          /\ ~routeOut.resp.action_plan.thank
          /\ ~routeOut.resp.action_plan.general
       \/ Cardinality(DOMAIN call.context) >= 3

\* C26: when a specialized advisor's reply is treated as a final action plan,
\* the response's action_plan is the reply (between the line breaks the
\* finalize node puts around it), response_text is empty, and the returned
\* context holds that plan under final_action_plan.
C26_FinalPlanStoredInContext ==
    (TreatedAsFinalPlan /\ wfOut.status = 200) =>
        /\ wfOut.action_plan.id = routeOut.resp.action_plan.id
        /\ wfOut.response_text = EmptyText
        /\ "final_action_plan" \in DOMAIN wfOut.context
        /\ wfOut.context["final_action_plan"] = ValueOfText(routeOut.resp.action_plan)

\* ------------------------------------------------------------ SpecResume
\* One POST /workflow/execute of a client whose context carries the action
\* plan an earlier turn finalized, under final_action_plan.

FinalizedPlan == Text("llm_structured_plan", 400, 400, TRUE, FALSE, FALSE)

ResumeRequests ==
    {Request(q, <<>>,
             ("final_action_plan" :> ValueOfText(FinalizedPlan)) @@ c @@ g, "answered") :
        q \in ConversationQueries, c \in ClassificationContexts, g \in GatheredContexts}

InitResume ==
    /\ phase = "pending"
    /\ req \in ResumeRequests
    /\ wfOut = IdleResponse
    /\ classifyLog = <<>>
    /\ turn = 1
    /\ tables = EmptyDb
    /\ lastCreate = IdleCreate
    /\ call = IdleCall
    /\ agentOut = IdleOut
    /\ routeOut = IdleRoute
    /\ modelLog = <<>>
    /\ IdleApi
    /\ IdleEnrich
    /\ IdleUtil

ResumeWorkflow == ExecuteWith(ClsOutcomes, WorkflowLLMOutcomes)

NextResume == ResumeWorkflow

SpecResume == InitResume /\ [][NextResume]_vars

\* C27: in every response of the workflow endpoints response_text is empty
\* whenever action_plan is not: the two are never both populated.
C27_PlanAndTextExclusive ==
    (phase = "done" /\ wfOut.status = 200) =>
        (wfOut.action_plan.raw > 0 => wfOut.response_text.raw = 0)


\* ------------------------------------------------- scrape provider polling

\* poll_progress's default max_attempts.
PollMaxAttempts == 60

\* What one GET of the progress URL can come to: the request, raise_for_status
\* or the JSON decoding raises, or a body is returned whose "status" is one of
\* the three the code knows, another one, or missing.
ProgressStatuses == {"ready", "failed", "running", "done", "missing"}

ProgressOutcomes ==
    {[raises |-> TRUE, status |-> "missing"]} \cup [raises : {FALSE}, status : ProgressStatuses]

\* What a response reported, as the claims name it.
Reported(outcome) == IF outcome.raises THEN "error" ELSE outcome.status

\* A call of poll_progress or get_snapshot that has made no request yet.
Polling(fn, max_attempts) ==
    [fn |-> fn, max_attempts |-> max_attempts, pc |-> "loop", requests |-> 0, slept |-> 0,
     seen |-> {}, last |-> "none", ret |-> "unset"]

PollReturn(p, value) == [p EXCEPT !.pc = "returned", !.ret = value]

PollSleep(p) == [p EXCEPT !.slept = @ + 1]

\* poll_progress's loop body in which "failed" is waited on like "running".
poll_progress_attempt_waits_on_failed(p, outcome) ==
    LET asked == [p EXCEPT !.requests = @ + 1, !.seen = @ \cup {Reported(outcome)},
                           !.last = Reported(outcome)]
    IN  IF ~outcome.raises /\ outcome.status = "ready"
        THEN PollReturn(asked, "True")
        ELSE PollSleep(asked)

\* poll_progress, one pass of the loop body: one request, then return on
\* "ready" and on "failed", sleep on everything else and on an exception.
poll_progress_attempt(p, outcome) ==
    LET asked == [p EXCEPT !.requests = @ + 1, !.seen = @ \cup {Reported(outcome)},
                           !.last = Reported(outcome)]
    IN  CASE outcome.raises -> PollSleep(asked)
          [] outcome.status = "ready" -> PollReturn(asked, "True")
          [] outcome.status = "failed" -> PollReturn(asked, "False")
          [] outcome.status = "running" -> PollSleep(asked)
          [] OTHER -> PollSleep(asked)

\* The values of max_attempts poll_progress is called with: the default, and
\* small ones a caller may pass.
ProgressAttemptLimits == {0, 1, 2, PollMaxAttempts}

InitPollProgress ==
    /\ phase = "idle"
    /\ tables = EmptyDb
    /\ lastCreate = IdleCreate
    /\ IdleAdvisory
    /\ IdleApi
    /\ IdleEnrich
    /\ sessions = {}
    /\ auth = [op |-> "none"]
    /\ trace = [node |-> "none"]
    /\ \E max_attempts \in ProgressAttemptLimits, api_key \in BOOLEAN :
        poll = [Polling("poll_progress", max_attempts) EXCEPT !.pc = "start"] @@
               [api_key |-> api_key]

\* poll_progress up to the loop: without BRIGHTDATA_API_KEY it raises ValueError.
PollProgressStart ==
    /\ poll.pc = "start"
    /\ poll' = IF poll.api_key THEN [poll EXCEPT !.pc = "loop"]
               ELSE [poll EXCEPT !.pc = "raised", !.ret = "ValueError"]
    /\ UNCHANGED <<phase, sessions, auth, trace, enrichVars, apiVars, leadVars, workflowVars,
                   advisorVars>>

PollProgressAttempt ==
    /\ poll.pc = "loop"
    /\ poll.requests < poll.max_attempts
    /\ \E outcome \in ProgressOutcomes : poll' = poll_progress_attempt(poll, outcome)
    /\ UNCHANGED <<phase, sessions, auth, trace, enrichVars, apiVars, leadVars, workflowVars,
                   advisorVars>>

\* The loop ran out of attempts: return False.
PollProgressTimeout ==
    /\ poll.pc = "loop"
    /\ poll.requests = poll.max_attempts
    /\ poll' = PollReturn(poll, "False")
    /\ UNCHANGED <<phase, sessions, auth, trace, enrichVars, apiVars, leadVars, workflowVars,
                   advisorVars>>

NextPollProgress == PollProgressStart \/ PollProgressAttempt \/ PollProgressTimeout

\* The function is a sequential loop: an enabled step is eventually taken.
SpecPollProgress == InitPollProgress /\ [][NextPollProgress]_vars /\ WF_vars(NextPollProgress)

PollEnded == poll.pc \in {"returned", "raised"}

Waited == {"running", "done", "missing", "error"}

PollProgressBehaves ==
    /\ poll.requests <= poll.max_attempts
    /\ (poll.pc = "returned" /\ poll.ret = "True") <=> "ready" \in poll.seen
    /\ "failed" \in poll.seen => /\ poll.pc = "returned"
                                 /\ poll.ret = "False"
                                 /\ poll.last = "failed"
    /\ poll.slept = poll.requests -
                    (IF poll.seen \cap {"ready", "failed"} # {} THEN 1 ELSE 0)
    /\ (poll.pc = "loop" /\ poll.requests > 0) => poll.last \in Waited
    /\ (poll.pc = "returned" /\ poll.seen \cap {"ready", "failed"} = {}) =>
            /\ poll.ret = "False"
            /\ poll.requests = poll.max_attempts

\* C29: poll_progress makes at most max_attempts requests and then ends; it
\* returns True exactly when a response reported "ready", False at the first
\* "failed" with no further request, waits (one attempt each) on "running", an
\* unrecognized status and an error, and returns False when attempts run out.
C29_PollProgressEnds == [](PollProgressBehaves) /\ <>PollEnded

\* All 60 attempts of the default were spent waiting, on every kind of answer
\* that is waited on, and the call returned False.
C29_Witness ==
    /\ poll.fn = "poll_progress"
    /\ poll.pc = "returned"
    /\ poll.ret = "False"
    /\ poll.requests = PollMaxAttempts
    /\ poll.slept = PollMaxAttempts
    /\ poll.seen = Waited


\* get_snapshot's default max_attempts.
SnapshotMaxAttempts == 10

\* A decoded JSON body of the snapshot URL: a dict (with its "status", if any),
\* a list, or null, with the number of its items.
Payload(kind, items, status) == [kind |-> kind, items |-> items, status |-> status]

NoPayload == Payload("none", 0, "missing")

SnapshotPayloads ==
    {Payload("dict", 1, "building"), Payload("dict", 2, "building"),
     Payload("dict", 1, "failed"), Payload("dict", 2, "missing"), Payload("dict", 0, "missing"),
     Payload("list", 2, "missing"), Payload("list", 0, "missing"), Payload("null", 0, "missing")}

\* What one GET of the snapshot URL can come to: the request, raise_for_status
\* or the JSON decoding raises, or a body is returned.
SnapshotOutcomes ==
    {[raises |-> TRUE, data |-> NoPayload]} \cup [raises : {FALSE}, data : SnapshotPayloads]

\* isinstance(data, dict) and data.get("status") == "building"
StillBuilding(data) == data.kind = "dict" /\ data.status = "building"

\* bool(data) of a decoded JSON body.
PayloadTruthy(data) == data.items > 0

\* get_snapshot's loop body in which an exception is waited on and retried.
get_snapshot_attempt_retries_on_error(p, outcome) ==
    LET asked == [p EXCEPT !.requests = @ + 1, !.answers = Append(@, outcome)]
    IN  CASE outcome.raises -> PollSleep(asked)
          [] StillBuilding(outcome.data) -> PollSleep(asked)
          [] PayloadTruthy(outcome.data) ->
                [PollReturn(asked, "data") EXCEPT !.payload = outcome.data]
          [] OTHER -> PollReturn(asked, "None")

\* get_snapshot, one pass of the loop body: one request; an exception returns
\* None, a "building" dict sleeps and goes on, any other body is returned when
\* truthy and None is returned otherwise.
get_snapshot_attempt(p, outcome) ==
    LET asked == [p EXCEPT !.requests = @ + 1, !.answers = Append(@, outcome)]
    IN  CASE outcome.raises -> PollReturn(asked, "None")
          [] StillBuilding(outcome.data) -> PollSleep(asked)
          [] PayloadTruthy(outcome.data) ->
                [PollReturn(asked, "data") EXCEPT !.payload = outcome.data]
          [] OTHER -> PollReturn(asked, "None")

SnapshotAttemptLimits == {0, 1, 2, SnapshotMaxAttempts}

InitGetSnapshot ==
    /\ phase = "idle"
    /\ tables = EmptyDb
    /\ lastCreate = IdleCreate
    /\ IdleAdvisory
    /\ IdleApi
    /\ IdleEnrich
    /\ sessions = {}
    /\ auth = [op |-> "none"]
    /\ trace = [node |-> "none"]
    /\ \E max_attempts \in SnapshotAttemptLimits :
        poll = Polling("get_snapshot", max_attempts) @@ [answers |-> <<>>, payload |-> NoPayload]

GetSnapshotAttempt ==
    /\ poll.pc = "loop"
    /\ poll.requests < poll.max_attempts
    /\ \E outcome \in SnapshotOutcomes : poll' = get_snapshot_attempt(poll, outcome)
    /\ UNCHANGED <<phase, sessions, auth, trace, enrichVars, apiVars, leadVars, workflowVars,
                   advisorVars>>

\* The loop ran out of attempts: return None.
GetSnapshotGaveUp ==
    /\ poll.pc = "loop"
    /\ poll.requests = poll.max_attempts
    /\ poll' = PollReturn(poll, "None")
    /\ UNCHANGED <<phase, sessions, auth, trace, enrichVars, apiVars, leadVars, workflowVars,
                   advisorVars>>

NextGetSnapshot == GetSnapshotAttempt \/ GetSnapshotGaveUp

\* The function is a sequential loop: an enabled step is eventually taken.
SpecGetSnapshot == InitGetSnapshot /\ [][NextGetSnapshot]_vars /\ WF_vars(NextGetSnapshot)

\* The provider answered with a body saying the snapshot is still building.
AnsweredBuilding(outcome) ==
    /\ ~outcome.raises
    /\ outcome.data.kind = "dict"
    /\ outcome.data.status = "building"

LastAnswer == poll.answers[Len(poll.answers)]

GetSnapshotBehaves ==
    /\ poll.requests = Len(poll.answers)
    /\ poll.requests <= poll.max_attempts
    /\ \A k \in 1..(Len(poll.answers) - 1) : AnsweredBuilding(poll.answers[k])
    /\ (poll.pc = "loop" /\ poll.answers # <<>>) => AnsweredBuilding(LastAnswer)
    /\ poll.slept = Cardinality({k \in 1..Len(poll.answers) : AnsweredBuilding(poll.answers[k])})
    /\ poll.pc = "returned" =>
        IF poll.answers # <<>> /\ ~AnsweredBuilding(LastAnswer)
        THEN IF ~LastAnswer.raises /\ LastAnswer.data.items > 0
             THEN poll.ret = "data" /\ poll.payload = LastAnswer.data
             ELSE poll.ret = "None"
        ELSE poll.ret = "None" /\ poll.requests = poll.max_attempts

\* C30: get_snapshot makes at most max_attempts requests and then ends; it
\* retries only after a "building" answer, returns the first other body when
\* that is non-empty, and returns None when that body is empty, when a request
\* raises (with no retry), or when every attempt was answered "building".
C30_GetSnapshotEnds == [](GetSnapshotBehaves) /\ <>PollEnded

\* Nine "building" answers of the default ten attempts were waited on and the
\* tenth request raised: None, with no eleventh request.
C30_Witness ==
    /\ poll.fn = "get_snapshot"
    /\ poll.pc = "returned"
    /\ poll.ret = "None"
    /\ poll.requests = SnapshotMaxAttempts
    /\ poll.slept = SnapshotMaxAttempts - 1
    /\ LastAnswer.raises


\* ------------------------------------------------------------ SpecEnrichRun
\* One execution of enrich_lead_task for a seeded lead, node by node: each node
\* of the graph is started against an environment of its own and returns or
\* raises, then the write-back.

\* The node functions, each at the position of the State field it fills.
NodeNames ==
    <<"serp_search_google", "find_linkedin_url", "scrape_linkedin", "analyze_linkedin",
      "find_company_search_results", "find_company_linkedin_url", "scrape_company_linkedin",
      "analyze_company_linkedin", "score_lead", "find_glassdoor_url", "scrape_glassdoor",
      "analyze_glassdoor", "find_company_insights">>

NodeIndex(name) == CHOOSE i \in DOMAIN NodeNames : NodeNames[i] = name

\* The edges with every add_edge in the order of the add_node calls.
EnrichmentEdge_in_add_node_order(node) ==
    CASE node = "START" -> "serp_search_google"
      [] node = "serp_search_google" -> "find_linkedin_url"
      [] node = "find_linkedin_url" -> "scrape_linkedin"
      [] node = "scrape_linkedin" -> "analyze_linkedin"
      [] node = "analyze_linkedin" -> "score_lead"
      [] node = "score_lead" -> "find_company_search_results"
      [] node = "find_company_search_results" -> "find_company_linkedin_url"
      [] node = "find_company_linkedin_url" -> "scrape_company_linkedin"
      [] node = "scrape_company_linkedin" -> "analyze_company_linkedin"
      [] node = "analyze_company_linkedin" -> "find_glassdoor_url"
      [] node = "find_glassdoor_url" -> "scrape_glassdoor"
      [] node = "scrape_glassdoor" -> "analyze_glassdoor"
      [] node = "analyze_glassdoor" -> "find_company_insights"
      [] node = "find_company_insights" -> "END"

\* create_lead_enrichment_graph: the add_edge calls.
EnrichmentEdge(node) ==
    CASE node = "START" -> "serp_search_google"
      [] node = "serp_search_google" -> "find_linkedin_url"
      [] node = "find_linkedin_url" -> "scrape_linkedin"
      [] node = "scrape_linkedin" -> "analyze_linkedin"
      [] node = "analyze_linkedin" -> "find_company_search_results"
      [] node = "find_company_search_results" -> "find_company_linkedin_url"
      [] node = "find_company_linkedin_url" -> "scrape_company_linkedin"
      [] node = "scrape_company_linkedin" -> "analyze_company_linkedin"
      [] node = "analyze_company_linkedin" -> "score_lead"
      [] node = "score_lead" -> "find_glassdoor_url"
      [] node = "find_glassdoor_url" -> "scrape_glassdoor"
      [] node = "scrape_glassdoor" -> "analyze_glassdoor"
      [] node = "analyze_glassdoor" -> "find_company_insights"
      [] node = "find_company_insights" -> "END"

\* The task execution: node is the last node that returned ("START" before the
\* first), running the node that was started and has not returned ("none"),
\* ran the nodes that returned or raised, found the State fields each of them
\* was started on, returned the value each of them returned, made the calls
\* each of them made, pc what the task does next.
EnrichRun(state) ==
    [node |-> "START", running |-> "none", env |-> NoEnv, ran |-> <<>>, found |-> <<>>,
     returned |-> <<>>, made |-> <<>>, state |-> state, raised |-> FALSE, pc |-> "graph", status |-> "STARTED",
     wrote |-> FALSE, job |-> FALSE]

\* graph.invoke with a node's exception swallowed: the run goes on.
graph_invoke_step_swallows(t, out) ==
    LET seen == [t EXCEPT !.running = "none", !.env = NoEnv,
                          !.ran = Append(@, t.running),
                          !.found = Append(@, t.state.fields),
                          !.returned = Append(@, out.value),
                          !.made = Append(@, out.made)]
    IN  [seen EXCEPT !.raised = @ \/ out.raised, !.node = t.running,
                     !.state.fields[StageFields[NodeIndex(t.running)]] =
                         IF out.raised THEN @ ELSE out.value]

\* graph.invoke after the running node returned or raised out: the node's
\* update is merged into the State, or the exception leaves graph.invoke and,
\* logged by the task's except clause, the task.
graph_invoke_step(t, out) ==
    LET seen == [t EXCEPT !.running = "none", !.env = NoEnv,
                          !.ran = Append(@, t.running),
                          !.found = Append(@, t.state.fields),
                          !.returned = Append(@, out.value),
                          !.made = Append(@, out.made)]
    IN  IF out.raised
        THEN [seen EXCEPT !.raised = TRUE, !.pc = "done", !.status = "FAILURE"]
        ELSE [seen EXCEPT !.node = t.running,
                          !.state.fields[StageFields[NodeIndex(t.running)]] = out.value]

InitEnrichRun ==
    /\ phase = "idle"
    /\ tables = SeededDb
    /\ lastCreate = IdleCreate
    /\ IdleAdvisory
    /\ IdleApi
    /\ IdleEnrich
    /\ sessions = {}
    /\ auth = [op |-> "none"]
    /\ poll = [fn |-> "none"]
    /\ \E l \in SeededDb.leads : trace = EnrichRun(SeedState(l, NoFields))

\* The next node of the graph is started.
EnrichNodeStart ==
    /\ trace.pc = "graph"
    /\ trace.running = "none"
    /\ EnrichmentEdge(trace.node) # "END"
    /\ \E env \in NodeEnvs(1) :
        trace' = [trace EXCEPT !.running = EnrichmentEdge(trace.node), !.env = env]
    /\ UNCHANGED <<sessions, auth, poll, phase, enrichVars, apiVars, leadVars, workflowVars,
                   advisorVars>>

\* The running node returns or raises.
EnrichNodeReturn ==
    /\ trace.pc = "graph"
    /\ trace.running # "none"
    /\ trace' = graph_invoke_step(trace, Node(NodeIndex(trace.running), trace.state, trace.env))
    /\ UNCHANGED <<sessions, auth, poll, phase, enrichVars, apiVars, leadVars, workflowVars,
                   advisorVars>>

\* graph.invoke returns final_state.
EnrichGraphEnd ==
    /\ trace.pc = "graph"
    /\ trace.running = "none"
    /\ EnrichmentEdge(trace.node) = "END"
    /\ trace' = [trace EXCEPT !.pc = "write_lead_company"]
    /\ UNCHANGED <<sessions, auth, poll, phase, enrichVars, apiVars, leadVars, workflowVars,
                   advisorVars>>

\* The lead and company updates of the write-back.
EnrichWriteLeadAndCompany ==
    /\ trace.pc = "write_lead_company"
    /\ \E fault \in {"none", "lead_update", "company_update"} :
        LET out == write_lead_and_company(tables, trace.state, fault)
            db == Session_execute(get_db_exit(get_db("enrich_lead_task", 1), FALSE))
        IN /\ tables' = out.db
           /\ sessions' = {IF out.raised THEN Session_close(db) ELSE db}
           /\ trace' = IF out.raised THEN [trace EXCEPT !.pc = "done", !.status = "SUCCESS"]
                       ELSE [trace EXCEPT !.pc = "write_job", !.wrote = TRUE]
    /\ UNCHANGED <<auth, poll, phase, lastCreate, enrichVars, apiVars, workflowVars,
                   advisorVars>>

\* The job update, the commits after it, and the task's return of final_state.
EnrichWriteJob ==
    /\ trace.pc = "write_job"
    /\ \E fault \in {"none", "job_update"} :
        LET out == write_job(tables, trace.state, fault)
        IN /\ tables' = out.db
           /\ sessions' = {Session_close(db) : db \in sessions}
           /\ trace' = [trace EXCEPT !.pc = "done", !.status = "SUCCESS", !.job = ~out.raised]
    /\ UNCHANGED <<auth, poll, phase, lastCreate, enrichVars, apiVars, workflowVars,
                   advisorVars>>

NextEnrichRun ==
    \/ EnrichNodeStart
    \/ EnrichNodeReturn
    \/ EnrichGraphEnd
    \/ EnrichWriteLeadAndCompany
    \/ EnrichWriteJob

SpecEnrichRun == InitEnrichRun /\ [][NextEnrichRun]_vars

\* ------------------------------------------------------------ enrichment run claims

\* The nodes that were started, the running one last.
StartedNodes == IF trace.running = "none" THEN trace.ran ELSE Append(trace.ran, trace.running)

\* C31: the 13 stages run one at a time in the order search individual,
\* identify profile URL, scrape profile, normalize profile, search company,
\* identify company URL, scrape company page, normalize company profile, score
\* lead, identify review URL, scrape reviews, analyze reviews, synthesize
\* insights; a stage starts on the State its predecessor returned, and the
\* write-back starts only after the last stage returned.
C31_StagesInFixedOrder ==
    LET order == <<"serp_search_google", "find_linkedin_url", "scrape_linkedin",
                   "analyze_linkedin", "find_company_search_results",
                   "find_company_linkedin_url", "scrape_company_linkedin",
                   "analyze_company_linkedin", "score_lead", "find_glassdoor_url",
                   "scrape_glassdoor", "analyze_glassdoor", "find_company_insights">>
    IN  /\ Len(StartedNodes) <= Len(order)
        /\ StartedNodes = SubSeq(order, 1, Len(StartedNodes))
        /\ \A k \in 2..Len(trace.ran) :
              trace.found[k][StageFields[NodeIndex(order[k - 1])]] = trace.returned[k - 1]
        /\ (trace.running # "none" /\ trace.ran # <<>>) =>
              /\ ~trace.raised
              /\ trace.state.fields[StageFields[NodeIndex(order[Len(trace.ran)])]] =
                     trace.returned[Len(trace.ran)]
        /\ trace.pc \in {"write_lead_company", "write_job"} \/ trace.wrote =>
              /\ trace.ran = order
              /\ ~trace.raised
              /\ trace.running = "none"

\* All thirteen nodes returned and the write-back committed the job update.
C31_Witness ==
    /\ "ran" \in DOMAIN trace
    /\ Len(trace.ran) = 13
    /\ trace.ran[9] = "score_lead"
    /\ trace.pc = "done"
    /\ trace.job


\* The enrichment job rows of the run's lead.
RunJobs == JobsOf(trace.state.lead_details.lead_id)

\* C32: when a stage raises, the failure leaves enrich_lead_task, no later
\* stage runs, there is no write-back and the lead, company and job rows stay
\* as they were (the job "pending"); the job is "completed" only in a run in
\* which all 13 stages returned.
C32_StageFailureWritesNothing ==
    /\ trace.raised =>
          /\ trace.pc = "done"
          /\ trace.status = "FAILURE"
          /\ trace.running = "none"
          /\ ~trace.wrote
          /\ sessions = {}
          /\ tables = SeededDb
          /\ \A j \in RunJobs : j.status = "pending"
    /\ (\E j \in RunJobs : j.status = "completed") =>
          /\ Len(trace.ran) = Len(NodeNames)
          /\ ~trace.raised

\* The scrape of the profile raised: three nodes ran, the task failed and the
\* lead's job is still pending.
C32_Witness ==
    /\ "ran" \in DOMAIN trace
    /\ trace.raised
    /\ trace.ran = <<"serp_search_google", "find_linkedin_url", "scrape_linkedin">>
    /\ trace.status = "FAILURE"
    /\ RunJobs # {}


\* The scrape nodes and the State field that holds the URL each one scrapes.
ScrapedUrlField ==
    [scrape_linkedin |-> "linkedin_url", scrape_company_linkedin |-> "company_linkedin_url",
     scrape_glassdoor |-> "glassdoor_url"]

\* C38: a scrape stage started on a State whose URL, left None by the
\* identification stage before it, is absent makes no trigger request.
C38_NoTriggerWithoutUrl ==
    \A k \in 2..Len(trace.ran) :
        (/\ trace.ran[k] \in DOMAIN ScrapedUrlField
         /\ trace.returned[k - 1] = PyNone
         /\ trace.found[k][ScrapedUrlField[trace.ran[k]]] = PyNone)
            => "scrape" \notin trace.made[k]


\* ------------------------------------------------------------ enrich dispatch claims

\* The entry is an object that holds id, name, email, designation and company.
ValidEntry(lead) ==
    /\ "tag" \notin DOMAIN lead
    /\ {"id", "name", "email", "designation", "company"} \subseteq DOMAIN lead

\* The database or the broker failed on the entry at position i.
FaultAt(i) == httpReq.fault.kind # "none" /\ httpReq.fault.at = i

\* The positions of the accepted request whose id has a row, in order, but for
\* those the database or the broker failed on.
FoundEntries ==
    SelectSeq([i \in DOMAIN RequestedLeads |-> i],
              LAMBDA i : /\ ~FaultAt(i)
                         /\ \E l \in tables.leads : l.id = RequestedLeads[i]["id"].n)

PendingRecords == SelectSeq(httpResp.results, LAMBDA r : r.status = "pending")

ContextTurnLLMOutcomes ==
    {o \in LLMOutcomes : o.ok => (o.next_questions # <<>>) <=> o.requires_clarification}

InitContextTurn ==
    /\ phase = "pending"
    /\ req \in ResumeRequests
    /\ wfOut = IdleResponse
    /\ classifyLog = <<>>
    /\ turn = 1
    /\ tables = EmptyDb
    /\ lastCreate = IdleCreate
    /\ call = IdleCall
    /\ agentOut = IdleOut
    /\ routeOut = IdleRoute
    /\ modelLog = <<>>
    /\ IdleApi
    /\ IdleEnrich
    /\ IdleUtil

ContextTurn == ExecuteWith(ClsOutcomes, ContextTurnLLMOutcomes)

NextContextTurn == ContextTurn

SpecContextTurn == InitContextTurn /\ [][NextContextTurn]_vars

C35_FailedCreateLeavesNoRow ==
    (lastCreate.calls > 0 /\ lastCreate.raised) =>
        /\ AddedLeads = {}
        /\ AddedJobs = {}
        /\ AddedCompanies = {}


\* ------------------------------------------------------------ SpecCompanyRace
\* get_or_create_company calls of concurrent requests, each on a session of
\* its own, interleaved at their statements: the SELECT by name, the INSERT
\* with its commit, the SELECT by id. The schema is no part of the
\* repository: the companies table may or may not reject a second row of the
\* same name (unique_name).

\* The largest number of concurrent calls.
MaxCallers == 2

CompanyNames == {<<"Acme">>, <<"Globex">>}

\* A get_or_create_company call: pc is the statement it executes next, id the
\* id of the row it returns (0: none yet).
Caller(company_name) == [pc |-> "select", company_name |-> company_name, id |-> 0,
                         raised |-> FALSE]

InitCompanyRace ==
    /\ phase = "idle"
    /\ lastCreate = IdleCreate
    /\ IdleAdvisory
    /\ IdleApi
    /\ scoring = [asked |-> FALSE]
    /\ pipe = [stage |-> 0]
    /\ IdleUtil
    /\ \E unique_name \in BOOLEAN, names \in [1..MaxCallers -> CompanyNames] :
        /\ tables = EmptyDb @@ [unique_name |-> unique_name]
        /\ workers = [k \in 1..MaxCallers |-> Caller(PyStr(names[k]))]

\* SELECT * FROM companies WHERE name = :name
CompanySelect ==
    /\ \E k \in DOMAIN workers :
        LET found == CompaniesNamed(tables, workers[k].company_name)
        IN /\ workers[k].pc = "select"
           /\ workers' = [workers EXCEPT ![k] =
                            IF found = {} THEN [@ EXCEPT !.pc = "insert"]
                            ELSE [@ EXCEPT !.pc = "done",
                                           !.id = (CHOOSE c \in found : TRUE).id]]
    /\ UNCHANGED <<utilVars, phase, scoring, pipe, leadVars, apiVars, advisorVars, workflowVars>>

\* INSERT INTO companies ... and db.commit(); a table that keeps names unique
\* rejects the row and the exception leaves get_or_create_company.
CompanyInsert ==
    /\ \E k \in DOMAIN workers :
        LET company_name == workers[k].company_name
            rejected == tables.unique_name /\ CompaniesNamed(tables, company_name) # {}
        IN /\ workers[k].pc = "insert"
           /\ tables' = IF rejected THEN tables
                        ELSE [tables EXCEPT
                                !.companies = @ \cup {[id |-> tables.next_id,
                                                        name |-> company_name.s]},
                                !.next_id = @ + 1]
           /\ workers' = [workers EXCEPT ![k] =
                            IF rejected THEN [@ EXCEPT !.pc = "done", !.raised = TRUE]
                            ELSE [@ EXCEPT !.pc = "fetch", !.id = tables.next_id]]
    /\ UNCHANGED <<utilVars, phase, scoring, pipe, lastCreate, apiVars, advisorVars,
                   workflowVars>>

\* SELECT * FROM companies WHERE id = :id, and the return of the row.
CompanyFetch ==
    /\ \E k \in DOMAIN workers :
        /\ workers[k].pc = "fetch"
        /\ workers' = [workers EXCEPT ![k] =
                         [@ EXCEPT !.pc = "done",
                                   !.id = IF \E c \in tables.companies : c.id = workers[k].id
                                          THEN workers[k].id ELSE 0]]
    /\ UNCHANGED <<utilVars, phase, scoring, pipe, leadVars, apiVars, advisorVars, workflowVars>>

NextCompanyRace == CompanySelect \/ CompanyInsert \/ CompanyFetch

SpecCompanyRace == InitCompanyRace /\ [][NextCompanyRace]_vars

\* C36: after any interleaving of get_or_create_company calls for the same
\* name the companies table holds exactly one row of that name and every
\* caller received that row's id.
C36_OneRowPerCompanyName ==
    (\A k \in DOMAIN workers : workers[k].pc = "done") =>
        \A k \in DOMAIN workers :
            /\ Cardinality(CompaniesNamed(tables, workers[k].company_name)) = 1
            /\ ~workers[k].raised
            /\ \A c \in CompaniesNamed(tables, workers[k].company_name) : workers[k].id = c.id


\* ------------------------------------------------------------ SpecUpdateRead
\* PUT /leads/{id} on the seeded database and then, the request's session
\* closed, GET /leads/{id} in a session of its own.

\* update_table_row on the leads table, RETURNING *: what the session sees
\* after the UPDATE (view) and the row it returns; None values are dropped
\* from the statement, and with no value left there is no statement.
update_table_row(db, id_value, update_data) ==
    LET columns == {k \in DOMAIN update_data : update_data[k] # PyNone}
        Updated(l) == [c \in DOMAIN l |-> IF c \in columns THEN update_data[c] ELSE l[c]]
        rows == LeadsWithId(db, id_value)
    IN IF columns = {} \/ rows = {} THEN [view |-> db, row |-> NoLead]
       ELSE [view |-> [db EXCEPT !.leads = {IF l.id = id_value THEN Updated(l) ELSE l :
                                               l \in @}],
             row |-> Updated(CHOOSE l \in rows : TRUE)]

\* lead_service.update_lead after the company step: company is popped from
\* update_data and company_id put in its place.
update_lead(db, lead_id, update_data, fault) ==
    LET named == "company" \in DOMAIN update_data /\ Truthy(update_data["company"])
        got == IF named THEN get_or_create_company(db, update_data["company"], fault)
               ELSE [db |-> db, raised |-> FALSE, company |-> NoCompany]
        rest == [k \in DOMAIN update_data \ (IF named THEN {"company"} ELSE {}) |->
                    update_data[k]]
        done == update_table_row(got.db, lead_id, rest)
    IN IF ~named THEN done
       ELSE [view |-> [done.view EXCEPT !.leads =
                          {IF l.id = lead_id THEN [l EXCEPT !.company_id = got.company.id]
                           ELSE l : l \in @}],
             row |-> IF done.row = NoLead /\ LeadsWithId(got.db, lead_id) = {} THEN NoLead
                     ELSE [(IF done.row = NoLead
                            THEN CHOOSE l \in LeadsWithId(got.db, lead_id) : TRUE
                            ELSE done.row) EXCEPT !.company_id = got.company.id]]

\* lead_service.get_lead: the row of that id, in the session's database.
get_lead(db, lead_id) ==
    IF LeadsWithId(db, lead_id) = {} THEN NoLead ELSE CHOOSE l \in LeadsWithId(db, lead_id) : TRUE

NoRead == [status |-> 0, row |-> NoLead]

InitUpdateRead ==
    /\ phase = "idle"
    /\ tables = SeededDb
    /\ lastCreate = IdleCreate
    /\ IdleAdvisory
    /\ IdleApi
    /\ IdleEnrich
    /\ IdleUtil

\* The PUT is answered and get_db closes its session: tables keeps what the
\* request committed.
PutLeadRow ==
    /\ phase = "idle"
    /\ phase' = "updated"
    /\ \E lead_id \in LeadIds, update_data \in LeadBodies, fault \in ApiFaults :
        LET response == endpoint_update_lead(lead_id, update_data, tables, fault)
        IN /\ httpReq' = [endpoint |-> "update", lead_id |-> lead_id, body |-> update_data,
                          fault |-> fault]
           /\ httpResp' = [status |-> response.status,
                           row |-> IF response.status = 200
                                   THEN update_lead(tables, lead_id, update_data, fault).row
                                   ELSE NoLead,
                           read |-> NoRead]
           /\ tables' = response.db
           /\ sessions' = sessions \cup {Depends_get_db("update", 1, response.status)}
    /\ UNCHANGED <<auth, trace, poll, lastCreate, queue, contOut, advisorVars, workflowVars,
                   enrichVars>>

\* The GET of the same id, answered from a new session.
GetLeadRow ==
    /\ phase = "updated"
    /\ phase' = "done"
    /\ \E fault \in {"none", "statement"} :
        LET response == endpoint_read_lead(httpReq.lead_id, tables, fault)
        IN /\ httpResp' = [httpResp EXCEPT !.read =
                              [status |-> response.status,
                               row |-> IF response.status = 200
                                       THEN get_lead(tables, httpReq.lead_id) ELSE NoLead]]
           /\ sessions' = sessions \cup {Depends_get_db("read", 2, response.status)}
    /\ UNCHANGED <<auth, trace, poll, leadVars, httpReq, queue, contOut, advisorVars,
                   workflowVars, enrichVars>>

NextUpdateRead == PutLeadRow \/ GetLeadRow

SpecUpdateRead == InitUpdateRead /\ [][NextUpdateRead]_vars

\* C37: a PUT /leads/{id} that returned the updated row has persisted the
\* change: a later GET /leads/{id} in a new session returns the updated
\* values.
C37_ReturnedUpdateIsPersisted ==
    (phase = "done" /\ httpResp.status = 200 /\ httpResp.read.status = 200) =>
        httpResp.read.row = httpResp.row


\* ------------------------------------------------------------ SpecCultureFill
\* CultureAgent.update_context_and_continue, called again and again: each
\* call is handed the updated_context the call before returned.

\* The dict objects of one call, by identity: 1 is the caller's context.
\* context = updated_context: the second name for the caller's own dict.
dict_copy_is_alias(objects, ref) ==
    [objects |-> objects, ref |-> ref]

\* context.copy(): a new dict with the same items.
dict_copy(objects, ref) ==
    [objects |-> ((Cardinality(DOMAIN objects) + 1) :> objects[ref]) @@ objects,
     ref |-> Cardinality(DOMAIN objects) + 1]

CultureContinueText == Text("culture_great_insights", 150, 150, FALSE, FALSE, TRUE)

\* CultureAgent.update_context_and_continue; question_index = ... in the
\* constructor call is no field of AgentResponse and is dropped. context is
\* the caller's dict after the call, updated_context the dict the call built.
update_context_and_continue(user_query, context, answer, question_index, llm) ==
    LET copied == dict_copy((1 :> context), 1)
        next_question == culture_clarifying_questions(context, question_index)
        objects == IF next_question # <<>>
                   THEN [copied.objects EXCEPT ![copied.ref] =
                            (next_question[1].key :> PyStr(answer)) @@ @]
                   ELSE copied.objects
        updated_context == objects[copied.ref]
        F == get_required_context_fields("CultureAgent")
        complete == \A i \in 1..Len(F) : F[i] \in DOMAIN updated_context
    IN [context |-> objects[1],
        updated_context |-> updated_context,
        reinvoked |-> complete,
        out |-> IF complete
                THEN CultureRunAgent(user_query, updated_context, question_index, llm)
                ELSE Out(AgentResponse(CultureContinueText,
                                       culture_clarifying_questions(updated_context,
                                                                    question_index + 1),
                                       updated_context, 6, TRUE), 0)]

\* The calls a conversation is allowed before it is cut off.
MaxFillCalls == 6

QuestionIndexes == (0 - 1)..Len(question_bank)

\* Answers that are not blank.
FillAnswers == {<<"y">>, <<" ", "n", "o">>}

FillQueries == {<<"h", "i">>, <<"T", "h", "a", "n", "k", "s">>}

FillLLMOutcomes ==
    {LLMFailure} \cup
    [ok : {TRUE}, action_plan : {Text("llm_general_reply", 120, 120, FALSE, FALSE, TRUE)},
     next_questions : {<<>>}, ctxmode : {"empty", "other"},
     confidence : {DefaultConfidence}, requires_clarification : {FALSE}]

FillState(context) ==
    [node |-> "update_context_and_continue", calls |-> 0, context |-> context,
     before |-> context, caller |-> context, updated |-> context,
     answer |-> <<>>, main |-> FALSE, confidence |-> 0]

InitCultureFill ==
    /\ phase = "idle"
    /\ \E context \in FieldContexts(get_required_context_fields("CultureAgent")) :
        trace = FillState(context)
    /\ sessions = {}
    /\ auth = [op |-> "none"]
    /\ poll = [fn |-> "none"]
    /\ tables = EmptyDb
    /\ lastCreate = IdleCreate
    /\ IdleAdvisory
    /\ IdleApi
    /\ IdleEnrich

\* One call; the chat model is reached only with no required field missing.
FillCall(user_query, answer, question_index, llm) ==
    \E r \in {update_context_and_continue(user_query, trace.context, answer,
                                          question_index, llm)} :
    \E main \in {r.reinvoked /\ check_missing_context(r.updated_context) = <<>>} :
       /\ ~r.out.raised
       /\ trace' = [trace EXCEPT !.calls = @ + 1,
                                 !.before = trace.context,
                                 !.caller = r.context,
                                 !.updated = r.updated_context,
                                 !.context = r.out.resp.updated_context,
                                 !.answer = answer,
                                 !.main = main,
                                 !.confidence = r.out.resp.confidence]
       /\ phase' = IF main THEN "done" ELSE "filling"

\* A call that has a field to fill.
FillMissingField ==
    /\ phase \in {"idle", "filling"}
    /\ trace.calls < MaxFillCalls
    /\ check_missing_context(trace.context) # <<>>
    /\ \E user_query \in FillQueries, answer \in FillAnswers,
          question_index \in QuestionIndexes, llm \in FillLLMOutcomes :
            FillCall(user_query, answer, question_index, llm)
    /\ UNCHANGED <<sessions, auth, poll, leadVars, apiVars, advisorVars, workflowVars,
                   enrichVars>>

\* A call on a context that misses nothing.
FillNothingMissing ==
    /\ phase \in {"idle", "filling"}
    /\ trace.calls < MaxFillCalls
    /\ check_missing_context(trace.context) = <<>>
    /\ \E user_query \in FillQueries, answer \in FillAnswers,
          question_index \in QuestionIndexes, llm \in FillLLMOutcomes :
            FillCall(user_query, answer, question_index, llm)
    /\ UNCHANGED <<sessions, auth, poll, leadVars, apiVars, advisorVars, workflowVars,
                   enrichVars>>

NextCultureFill == FillMissingField \/ FillNothingMissing

SpecCultureFill == InitCultureFill /\ [][NextCultureFill]_vars

\* The fields of a context that differ from another's.
ChangedFields(before, after) ==
    {k \in DOMAIN after : k \notin DOMAIN before \/ after[k] # before[k]}
        \cup (DOMAIN before \ DOMAIN after)

\* C39: from any context and any question_index, each call of the Culture
\* advisor's update_context_and_continue with a non-blank answer on the
\* context the call before returned fills exactly one missing required field
\* and leaves the caller's dict as it was; no more than 4 calls are made, and
\* the call after which nothing is missing invokes the main flow and not
\* another clarification.
C39_FillsOneFieldPerCall ==
    LET F == get_required_context_fields("CultureAgent")
        was == SeqRange(check_missing_context(trace.before))
        now == SeqRange(check_missing_context(trace.updated))
    IN /\ trace.calls <= Len(F)
       /\ trace.calls > 0 =>
            /\ trace.caller = trace.before
            /\ was # {} =>
                \E f \in was :
                    /\ now = was \ {f}
                    /\ ChangedFields(trace.before, trace.updated) = {f}
                    /\ trace.updated[f] = PyStr(trace.answer)
            /\ was = {} => trace.updated = trace.before
            /\ trace.main <=> now = {}
            /\ phase = (IF now = {} THEN "done" ELSE "filling")
            /\ ~trace.main => trace.context = trace.updated
            /\ trace.calls + Cardinality(now) <= Len(F)

\* The fourth call, on a context that had every key but one value blank,
\* fills the last field and reaches the main flow.
C39_Witness ==
    /\ phase = "done"
    /\ trace.calls = 4
    /\ trace.main
    /\ DOMAIN trace.before = SeqRange(get_required_context_fields("CultureAgent"))
    /\ trace.caller = trace.before
    /\ Cardinality(SeqRange(check_missing_context(trace.before))) = 1


\* ------------------------------------------------------------ SpecRegisterRace
\* POST /auth/register served for several requests at once: register_user is
\* a plain def, which the framework runs on a thread of its own per request,
\* and its statements against the external users table are separate REST
\* calls. The table keeps emails unique, as its schema says; whether it keeps
\* usernames unique too is the table's own setting (unique_username).

RegisterEmails == {<<"a@x.io">>, <<"b@x.io">>}

RegisterUsernames == {<<"ann">>, <<"bob">>}

\* A register_user call: pc is the statement it executes next, status the
\* HTTP status it answered with (0: none yet), existed whether the table held
\* its email or its username when its INSERT was sent.
Registration(email, username) ==
    [pc |-> "email", email |-> email, username |-> username, status |-> 0,
     inserted |-> FALSE, existed |-> FALSE]

UsersWithEmail(db, email) == {u \in db.users : u.email = email}

UsersWithUsername(db, username) == {u \in db.users : u.username = username}

InitRegisterRace ==
    /\ phase = "idle"
    /\ lastCreate = IdleCreate
    /\ IdleAdvisory
    /\ IdleApi
    /\ scoring = [asked |-> FALSE]
    /\ pipe = [stage |-> 0]
    /\ IdleUtil
    /\ \E unique_username \in BOOLEAN, emails \in [1..MaxCallers -> RegisterEmails],
          usernames \in [1..MaxCallers -> RegisterUsernames] :
        /\ tables = [users |-> {}, next_id |-> 1, unique_email |-> TRUE,
                     unique_username |-> unique_username]
        /\ workers = [k \in 1..MaxCallers |-> Registration(emails[k], usernames[k])]

\* get_user_by_email(payload.email)
RegisterCheckEmail ==
    /\ \E k \in DOMAIN workers :
        /\ workers[k].pc = "email"
        /\ workers' = [workers EXCEPT ![k] =
                         IF UsersWithEmail(tables, workers[k].email) # {}
                         THEN [@ EXCEPT !.pc = "done", !.status = 400]
                         ELSE [@ EXCEPT !.pc = "username"]]
    /\ UNCHANGED <<utilVars, phase, scoring, pipe, leadVars, apiVars, advisorVars, workflowVars>>

\* get_user_by_username(payload.username)
RegisterCheckUsername ==
    /\ \E k \in DOMAIN workers :
        /\ workers[k].pc = "username"
        /\ workers' = [workers EXCEPT ![k] =
                         IF UsersWithUsername(tables, workers[k].username) # {}
                         THEN [@ EXCEPT !.pc = "done", !.status = 400]
                         ELSE [@ EXCEPT !.pc = "insert"]]
    /\ UNCHANGED <<utilVars, phase, scoring, pipe, leadVars, apiVars, advisorVars, workflowVars>>

\* supabase.table("users").insert(user_data).execute(): a row the table
\* rejects makes execute() raise, which nothing in register_user catches.
RegisterInsert ==
    /\ \E k \in DOMAIN workers :
        LET sameEmail == UsersWithEmail(tables, workers[k].email) # {}
            sameUsername == UsersWithUsername(tables, workers[k].username) # {}
            rejected == \/ tables.unique_email /\ sameEmail
                        \/ tables.unique_username /\ sameUsername
        IN /\ workers[k].pc = "insert"
           /\ tables' = IF rejected THEN tables
                        ELSE [tables EXCEPT
                                !.users = @ \cup {[id |-> tables.next_id,
                                                    email |-> workers[k].email,
                                                    username |-> workers[k].username]},
                                !.next_id = @ + 1]
           /\ workers' = [workers EXCEPT ![k] =
                            [@ EXCEPT !.pc = "done",
                                      !.status = IF rejected THEN 500 ELSE 200,
                                      !.inserted = ~rejected,
                                      !.existed = sameEmail \/ sameUsername]]
    /\ UNCHANGED <<utilVars, phase, scoring, pipe, lastCreate, apiVars, advisorVars,
                   workflowVars>>

NextRegisterRace == RegisterCheckEmail \/ RegisterCheckUsername \/ RegisterInsert

SpecRegisterRace == InitRegisterRace /\ [][NextRegisterRace]_vars

\* C40: after any interleaving of POST /auth/register requests the users
\* table holds no two rows with the same email and no two rows with the same
\* username, and a register whose email or username is in the table already
\* is answered 400 and inserts no row.
C40_NoDuplicateUsers ==
    /\ \A u1, u2 \in tables.users :
        u1 # u2 => u1.email # u2.email /\ u1.username # u2.username
    /\ \A k \in DOMAIN workers :
        (workers[k].pc = "done" /\ workers[k].existed) =>
            workers[k].status = 400 /\ ~workers[k].inserted
====
